---- MODULE Spec2Model ----
(***************************************************************************)
(* Model of the scheduling backend's calendar reconciliation               *)
(* (src/tools/check_real_calendar.py): the lazily created calendar client, *)
(* the slot source (live sweep and smart mock sweep), the tiered matching  *)
(* of check_real_calendar and its exception-driven basic fallback.         *)
(*                                                                         *)
(* Time is counted in whole seconds of wall clock since a Monday 00:00:00  *)
(* (week 0, day 0); Python's weekday() is 0 for Monday.  A datetime is a   *)
(* record [aware, wall, off]: whether it carries a UTC offset, its wall    *)
(* clock reading and its offset in seconds.  An ISO string is a record     *)
(* [kind, wall, off] with kind "Z" (UTC designator), "offset" (+hh:mm      *)
(* form), "naive" (no designator) or "bad" (not an ISO instant).           *)
(***************************************************************************)
EXTENDS Integers, Sequences, FiniteSets, TLC

VARIABLES
    calendar_client,   \* the module global _calendar_client: NoClient or a client record
    credentials,       \* environment: what _authenticate finds ("none", "invalid", "valid")
    now,               \* environment: the reading of datetime.now() during the call
    candidate_times,   \* the argument of the check_real_calendar call
    pc,                \* "idle" before the call, "done" after it returned
    freebusy,          \* what the free/busy query of the call answered
    slot_source,       \* outcome of generate_available_slots: [raised, slots]
    matches,           \* the three match lists of the call, as they are at its end
    path,              \* the branch that built the proposal
    result,            \* the AvailableSlots value returned
    call,              \* function and arguments of a call made on a function directly
    ret,               \* what that call returned
    auth_count,        \* how many times _authenticate has run in the process
    threads,           \* concurrent callers of get_calendar_client: position and locals
    log,               \* the calls made so far, in order, with what became of them
    loop               \* a sweep under way: current, available_slots, end_time

vars == <<calendar_client, credentials, now, candidate_times, pc, freebusy,
          slot_source, matches, path, result, call, ret,
          auth_count, threads, log, loop>>

(***************************************************************************)
(* Bounds of the model.                                                    *)
(***************************************************************************)
MaxCand == 2     \* longest candidate_times list tried
MaxBusy == 1     \* longest busy list a free/busy answer carries

(***************************************************************************)
(* Calendar arithmetic of datetime / timedelta.                            *)
(***************************************************************************)
MINUTE == 60
HOUR == 60 * MINUTE
DAY == 24 * HOUR

At(week, day, h, m, s) == (7 * week + day) * DAY + h * HOUR + m * MINUTE + s

weekday(t) == (t \div DAY) % 7
hour(t) == (t % DAY) \div HOUR
minute(t) == (t % HOUR) \div MINUTE
date(t) == t \div DAY

\* datetime.replace(hour=h)
replace_hour(t, h) == t - hour(t) * HOUR + h * HOUR
\* datetime.replace(minute=0, second=0, microsecond=0)
replace_minute0(t) == t - (t % HOUR)

abs(x) == IF x < 0 THEN -x ELSE x

(***************************************************************************)
(* ISO strings and their parsing.                                          *)
(***************************************************************************)
ZStr(t) == [kind |-> "Z", wall |-> t, off |-> 0]
OffsetStr(t, o) == [kind |-> "offset", wall |-> t, off |-> o]
NaiveStr(t) == [kind |-> "naive", wall |-> t, off |-> 0]
BadStr == [kind |-> "bad", wall |-> 0, off |-> 0]

\* datetime.fromisoformat(s.replace('Z', '+00:00')) raises ValueError on a bad string
parse_raises(s) == s.kind = "bad"
\* ... and otherwise yields an aware datetime for "Z" and offset forms, a naive one else
fromisoformat(s) ==
    [aware |-> s.kind \in {"Z", "offset"}, wall |-> s.wall, off |-> s.off]

\* naive_datetime.isoformat() + 'Z'
isoformat_Z(t) == ZStr(t)

\* the instant of an aware datetime, in seconds of UTC
utc(d) == d.wall - d.off

(***************************************************************************)
(* GoogleCalendarClient: authentication and the free/busy query.           *)
(***************************************************************************)
\* _authenticate: any failure (no credentials, invalid credentials) is caught
\* and leaves service = None; valid credentials build the service.
_authenticate(creds) == IF creds = "valid" THEN "service" ELSE "None"

\* The value None of the global _calendar_client (line 244)
NoClient == [exists |-> FALSE, service |-> "None"]

\* GoogleCalendarClient(): __init__ sets service = None, then authenticates
GoogleCalendarClient(creds) == [exists |-> TRUE, service |-> _authenticate(creds)]

\* a getter that authenticates again while the cached client has no service
get_calendar_client_retry(client, creds) ==
    IF ~client.exists \/ client.service = "None"
    THEN GoogleCalendarClient(creds) ELSE client

\* get_calendar_client: the cached global, or a new client stored in it
get_calendar_client(client, creds) ==
    IF ~client.exists THEN GoogleCalendarClient(creds) ELSE client

\* get_busy_times: [] without a service or when the query raises, else the
\* 'busy' list of the answer.  fb is the answer of the free/busy service:
\* [status |-> "error"] or [status |-> "ok", busy |-> list of [start, end]].
get_busy_times(service, fb) ==
    IF service = "None" THEN << >>
    ELSE IF fb.status = "error" THEN << >>
    ELSE fb.busy

\* dict.get(key): the value, or None for a key the dict does not have
get(dict, key) == IF key \in DOMAIN dict THEN dict[key] ELSE "None"

\* the dict {} that create_event returns when the insert failed (line 241)
EmptyDict == [key \in {} |-> "None"]

\* create_event (lines 195-241).  insert is what the events().insert request
\* does when it is made: "ok" or "HttpError".  Without a service the event is
\* simulated before start_time is looked at; with one, start_time is parsed
\* outside the try (line 211) and a failed insert is caught (lines 239-241).
\* The id of a simulated event carries the clock's second, left out here.
create_event(service, summary, start_time, insert) ==
    IF service = "None"
    THEN [raised |-> FALSE,
          value |-> [id |-> "mock_event", htmlLink |-> "mock_link",
                     summary |-> summary]]
    ELSE IF parse_raises(start_time)
    THEN [raised |-> TRUE, value |-> EmptyDict]
    ELSE IF insert = "ok"
    THEN [raised |-> FALSE,
          value |-> [id |-> "event", htmlLink |-> "link", summary |-> summary]]
    ELSE [raised |-> FALSE, value |-> EmptyDict]

\* candidate_email.split('@')[0] for the addresses of the model
local_part(email) == IF email = "candidate@example.com" THEN "candidate" ELSE email

\* create_meeting_event (lines 371-414): the client is fetched, the summary is
\* built (candidate_email.split raises on None when no name is given), the
\* event is created, and whatever create_event returned is reported with
\* success True; any exception is reported with success False.
create_meeting_event(client, creds, candidate_email, meeting_time, candidate_name, insert) ==
    LET calendar_client_used == get_calendar_client(client, creds)
        failure == [success |-> FALSE, error |-> "error",
                    message |-> "Failed to create calendar event"]
    IN  IF candidate_name = "None" /\ candidate_email = "None"
        THEN [client |-> calendar_client_used, value |-> failure]
        ELSE LET summary == IF candidate_name # "None" THEN candidate_name
                            ELSE local_part(candidate_email)
                 created == create_event(calendar_client_used.service, summary,
                                         meeting_time, insert)
             IN  IF created.raised
                 THEN [client |-> calendar_client_used, value |-> failure]
                 ELSE [client |-> calendar_client_used,
                       value |-> [success |-> TRUE,
                                  event_id |-> get(created.value, "id"),
                                  event_link |-> get(created.value, "htmlLink"),
                                  message |-> "Calendar event created successfully"]]

(***************************************************************************)
(* The slot sweeps.                                                        *)
(***************************************************************************)
SlotCap == 20

\* an overlap test on closed intervals: a slot that touches a busy interval
\* counts as busy
RECURSIVE busy_check_closed(_, _, _, _)
busy_check_closed(current, slot_end, busy_periods, k) ==
    IF k > Len(busy_periods) THEN "available"
    ELSE IF busy_periods[k].end.aware \/ busy_periods[k].start.aware THEN "TypeError"
    ELSE IF current <= busy_periods[k].end.wall /\ slot_end >= busy_periods[k].start.wall
    THEN "busy"
    ELSE busy_check_closed(current, slot_end, busy_periods, k + 1)

\* The busy loop of one slot (lines 144-148): current and slot_end are naive,
\* so a comparison against an aware busy bound raises TypeError; `and` does
\* not evaluate its right operand when the left one is false.
RECURSIVE busy_check(_, _, _, _)
busy_check(current, slot_end, busy_periods, k) ==
    IF k > Len(busy_periods) THEN "available"
    ELSE LET busy_start == busy_periods[k].start
             busy_end == busy_periods[k].end
         IN  IF busy_end.aware THEN "TypeError"
             ELSE IF current < busy_end.wall
                  THEN IF busy_start.aware THEN "TypeError"
                       ELSE IF slot_end > busy_start.wall THEN "busy"
                       ELSE busy_check(current, slot_end, busy_periods, k + 1)
                  ELSE busy_check(current, slot_end, busy_periods, k + 1)

\* a sweep that starts at the clock reading itself
first_hour_unrounded(t) == t

\* The first value of current (lines 116-120 and 162-166)
first_hour(t) ==
    IF minute(t) > 0 THEN replace_minute0(t) + HOUR ELSE replace_minute0(t)

\* The loops keep two locals, current and available_slots; raised tells
\* that the body left the loop by an exception.
LoopState(current, available_slots, raised) ==
    [current |-> current, available_slots |-> available_slots, raised |-> raised]

\* a loop without the cap on the number of slots
loop_condition_uncapped(st, end_time) ==
    ~st.raised /\ st.current < end_time

\* while current < end_time and len(available_slots) < 20
loop_condition(st, end_time) ==
    ~st.raised /\ st.current < end_time /\ Len(st.available_slots) < SlotCap

\* One pass through the body of the while loop of generate_available_slots
\* (lines 125-154)
live_body(st, busy_periods, duration_minutes, business_start, business_end) ==
    LET current == st.current
    IN  IF weekday(current) >= 5
        THEN LoopState(replace_hour(current + DAY, business_start),
                       st.available_slots, FALSE)
        ELSE IF hour(current) < business_start \/ hour(current) >= business_end
        THEN IF hour(current) >= business_end
             THEN LoopState(replace_hour(current + DAY, business_start),
                            st.available_slots, FALSE)
             ELSE LoopState(replace_hour(current, business_start),
                            st.available_slots, FALSE)
        ELSE LET slot_end == current + duration_minutes * MINUTE
                 is_available == busy_check(current, slot_end, busy_periods, 1)
             IN  IF is_available = "TypeError"
                 THEN LoopState(current, st.available_slots, TRUE)
                 ELSE LoopState(current + HOUR,
                                IF is_available = "available"
                                THEN Append(st.available_slots, isoformat_Z(current))
                                ELSE st.available_slots,
                                FALSE)

\* The while loop: the body is repeated while the condition holds.  n bounds
\* the number of passes; the passes are split in halves to keep the
\* evaluation shallow.
RECURSIVE live_sweep(_, _, _, _, _, _, _)
live_sweep(st, n, end_time, busy_periods, duration_minutes, business_start, business_end) ==
    IF ~loop_condition(st, end_time) \/ n <= 0 THEN st
    ELSE IF n = 1
    THEN live_body(st, busy_periods, duration_minutes, business_start, business_end)
    ELSE LET half == live_sweep(st, n \div 2, end_time, busy_periods,
                                duration_minutes, business_start, business_end)
         IN  live_sweep(half, n - (n \div 2), end_time, busy_periods,
                        duration_minutes, business_start, business_end)

\* The hours the smart mock emits (line 187)
MockHours == {9, 10, 11, 12, 13, 14, 15, 16}

\* a weekend branch that sets the hour and forgets to add the day
mock_body_weekend_stays(st, business_start, business_end) ==
    LET current == st.current
    IN  IF weekday(current) >= 5
        THEN LoopState(replace_hour(current, business_start),
                       st.available_slots, FALSE)
        ELSE IF hour(current) < business_start \/ hour(current) >= business_end
        THEN IF hour(current) >= business_end
             THEN LoopState(replace_hour(current + DAY, business_start),
                            st.available_slots, FALSE)
             ELSE LoopState(replace_hour(current, business_start),
                            st.available_slots, FALSE)
        ELSE LoopState(current + HOUR,
                       IF hour(current) \in {9, 10, 11, 12, 13, 14, 15, 16}
                       THEN Append(st.available_slots, isoformat_Z(current))
                       ELSE st.available_slots,
                       FALSE)

\* One pass through the body of the while loop of _generate_smart_mock_slots
\* (lines 171-190)
mock_body(st, business_start, business_end) ==
    LET current == st.current
    IN  IF weekday(current) >= 5
        THEN LoopState(replace_hour(current + DAY, business_start),
                       st.available_slots, FALSE)
        ELSE IF hour(current) < business_start \/ hour(current) >= business_end
        THEN IF hour(current) >= business_end
             THEN LoopState(replace_hour(current + DAY, business_start),
                            st.available_slots, FALSE)
             ELSE LoopState(replace_hour(current, business_start),
                            st.available_slots, FALSE)
        ELSE LoopState(current + HOUR,
                       IF hour(current) \in MockHours
                       THEN Append(st.available_slots, isoformat_Z(current))
                       ELSE st.available_slots,
                       FALSE)

RECURSIVE mock_sweep(_, _, _, _, _)
mock_sweep(st, n, end_time, business_start, business_end) ==
    IF ~loop_condition(st, end_time) \/ n <= 0 THEN st
    ELSE IF n = 1 THEN mock_body(st, business_start, business_end)
    ELSE LET half == mock_sweep(st, n \div 2, end_time, business_start, business_end)
         IN  mock_sweep(half, n - (n \div 2), end_time, business_start, business_end)

\* Every pass moves current forward by an hour at least, so a window of
\* days_ahead days is swept in at most this many passes.
MaxPasses(days_ahead) == 24 * days_ahead + 1

\* What a call of the slot source yields: the list returned, or raised; ended
\* tells that the loop condition was false when the sweep stopped.
SlotOutcome(st, end_time) ==
    [raised |-> st.raised,
     slots |-> IF st.raised THEN << >> ELSE st.available_slots,
     ended |-> ~loop_condition(st, end_time)]

_generate_smart_mock_slots(t, duration_minutes, business_start, business_end, days_ahead) ==
    LET current == first_hour(t)
        end_time == current + days_ahead * DAY
    IN  SlotOutcome(mock_sweep(LoopState(current, << >>, FALSE),
                               MaxPasses(days_ahead), end_time,
                               business_start, business_end),
                    end_time)

\* generate_available_slots: the mock sweep without a service; else the busy
\* strings are parsed (a bad one raises ValueError, lines 110-113) and the
\* live sweep runs.  Nothing in it catches what it raises.
generate_available_slots(service, t, fb, duration_minutes, business_start, business_end, days_ahead) ==
    IF service = "None"
    THEN _generate_smart_mock_slots(t, duration_minutes, business_start,
                                    business_end, days_ahead)
    ELSE LET busy_times == get_busy_times(service, fb)
         IN  IF \E k \in 1..Len(busy_times) :
                    parse_raises(busy_times[k].start) \/ parse_raises(busy_times[k].end)
             THEN [raised |-> TRUE, slots |-> << >>, ended |-> TRUE]
             ELSE LET busy_periods ==
                          [k \in 1..Len(busy_times) |->
                              [start |-> fromisoformat(busy_times[k].start),
                               end |-> fromisoformat(busy_times[k].end)]]
                      current == first_hour(t)
                      end_time == current + days_ahead * DAY
                  IN  SlotOutcome(live_sweep(LoopState(current, << >>, FALSE),
                                             MaxPasses(days_ahead), end_time,
                                             busy_periods, duration_minutes,
                                             business_start, business_end),
                                  end_time)

(***************************************************************************)
(* check_real_calendar: the tiered matching.                               *)
(***************************************************************************)
\* Python slicing s[:n]
FirstN(s, n) == SubSeq(s, 1, IF Len(s) < n THEN Len(s) ELSE n)

\* abs((candidate_dt - interviewer_dt).total_seconds()), in seconds: the code
\* divides it by 3600 and compares with 1, 3 and 24 (line 298)
time_diff(candidate_dt, interviewer_dt) ==
    abs(utc(candidate_dt) - utc(interviewer_dt))

\* candidate_dt.date() == interviewer_dt.date(): each date is read off the
\* datetime's own wall clock (line 301)
same_day(candidate_dt, interviewer_dt) ==
    date(candidate_dt.wall) = date(interviewer_dt.wall)

\* a classification whose bounds exclude the values 1, 3 and 24 hours
tier_of_exclusive(candidate_dt, interviewer_dt) ==
    LET d == abs((candidate_dt.wall - candidate_dt.off)
                     - (interviewer_dt.wall - interviewer_dt.off))
        sd == (candidate_dt.wall \div DAY) = (interviewer_dt.wall \div DAY)
    IN  IF sd /\ d < 1 * HOUR THEN "EXACT"
        ELSE IF sd /\ d < 3 * HOUR THEN "SAME_DAY"
        ELSE IF d < 24 * HOUR THEN "CLOSE"
        ELSE "none"

\* the if / elif / elif of lines 303-311
tier_of(candidate_dt, interviewer_dt) ==
    LET time_diff_hours_x3600 == time_diff(candidate_dt, interviewer_dt)
    IN  IF same_day(candidate_dt, interviewer_dt) /\ time_diff_hours_x3600 <= 1 * HOUR
        THEN "EXACT"
        ELSE IF same_day(candidate_dt, interviewer_dt) /\ time_diff_hours_x3600 <= 3 * HOUR
        THEN "SAME_DAY"
        ELSE IF time_diff_hours_x3600 <= 24 * HOUR
        THEN "CLOSE"
        ELSE "none"

NoMatches == [exact |-> << >>, same_day |-> << >>, close |-> << >>]

\* a tuple that carries the candidate's time instead of the interviewer's
match_tuple_candidate(interviewer_time, candidate_dt, interviewer_dt) ==
    <<isoformat_Z(candidate_dt.wall), time_diff(candidate_dt, interviewer_dt)>>

\* the tuple appended to a match list: (interviewer_time, time_diff_hours)
match_tuple(interviewer_time, candidate_dt, interviewer_dt) ==
    <<interviewer_time, time_diff(candidate_dt, interviewer_dt)>>

\* the pass for interviewer_times[k] raises: its parse fails, or the
\* subtraction mixes a naive and an aware datetime (TypeError)
pair_raises(candidate_dt, interviewer_time) ==
    \/ parse_raises(interviewer_time)
    \/ candidate_dt.aware # fromisoformat(interviewer_time).aware

\* The loop over interviewer_times for one candidate (lines 294-311).  The
\* first pass that raises leaves the loop by the except of line 313; what was
\* appended before stays appended.  Each list receives, in the order of
\* interviewer_times, the tuples of the visited times of its tier.
interviewer_loop(candidate_dt, interviewer_times, m) ==
    LET raising == {k \in 1..Len(interviewer_times) :
                       pair_raises(candidate_dt, interviewer_times[k])}
        visited == IF raising = {} THEN interviewer_times
                   ELSE SubSeq(interviewer_times, 1,
                               (CHOOSE k \in raising : \A l \in raising : k <= l) - 1)
        appended(tier) ==
            LET hits == SelectSeq(visited,
                            LAMBDA it : tier_of(candidate_dt, fromisoformat(it)) = tier)
            IN  [i \in 1..Len(hits) |->
                    match_tuple(hits[i], candidate_dt, fromisoformat(hits[i]))]
    IN  [exact |-> m.exact \o appended("EXACT"),
         same_day |-> m.same_day \o appended("SAME_DAY"),
         close |-> m.close \o appended("CLOSE")]

\* The loop over candidate_times (lines 289-315): a candidate whose own
\* parse fails is skipped by the same except
RECURSIVE candidate_loop(_, _, _, _)
candidate_loop(cands, interviewer_times, j, m) ==
    IF j > Len(cands) THEN m
    ELSE IF parse_raises(cands[j])
    THEN candidate_loop(cands, interviewer_times, j + 1, m)
    ELSE candidate_loop(cands, interviewer_times, j + 1,
                        interviewer_loop(fromisoformat(cands[j]),
                                         interviewer_times, m))

\* a sort that puts an element before the earlier elements of equal key
RECURSIVE sort_by_diff_unstable(_)
sort_by_diff_unstable(s) ==
    IF Len(s) <= 1 THEN s
    ELSE LET rest == sort_by_diff_unstable(SubSeq(s, 1, Len(s) - 1))
             x == s[Len(s)]
             pos == Cardinality({i \in 1..Len(rest) : rest[i][2] < x[2]})
         IN  SubSeq(rest, 1, pos) \o <<x>> \o SubSeq(rest, pos + 1, Len(rest))

\* no sort at all: the list stays in discovery order
sort_by_diff_none(s) == s

\* list.sort(key=lambda x: x[1]): a stable sort on the second component
RECURSIVE sort_by_diff(_)
sort_by_diff(s) ==
    IF Len(s) <= 1 THEN s
    ELSE LET rest == sort_by_diff(SubSeq(s, 1, Len(s) - 1))
             x == s[Len(s)]
             pos == Cardinality({i \in 1..Len(rest) : rest[i][2] <= x[2]})
         IN  SubSeq(rest, 1, pos) \o <<x>> \o SubSeq(rest, pos + 1, Len(rest))

\* [match[0] for match in matches[:3]]
times_of_first3(sorted) == [i \in 1..Len(FirstN(sorted, 3)) |-> sorted[i][1]]

\* a fallback that proposes nothing
general_availability_none(interviewer_times) == << >>

\* a fallback that proposes five slots
general_availability_5(interviewer_times) == FirstN(interviewer_times, 5)

\* interviewer_times[:3], the proposal when no pair matched (line 337)
general_availability(interviewer_times) == FirstN(interviewer_times, 3)

\* a selection that fills a short proposal up to three with the first
\* interviewer times not yet proposed
select_proposal_padded(m, interviewer_times) ==
    LET list == IF m.exact # << >> THEN m.exact
                ELSE IF m.same_day # << >> THEN m.same_day
                ELSE m.close
        taken == times_of_first3(sort_by_diff(list))
        others == SelectSeq(interviewer_times,
                            LAMBDA it : \A i \in 1..Len(taken) : taken[i] # it)
    IN  [path |-> IF m.exact # << >> THEN "EXACT"
                  ELSE IF m.same_day # << >> THEN "SAME_DAY"
                  ELSE IF m.close # << >> THEN "CLOSE"
                  ELSE "general",
         proposed_times |-> taken \o FirstN(others, 3 - Len(taken)),
         matches |-> m]

\* Priority selection (lines 317-338): the first non-empty tier is sorted in
\* place and gives its first three times; with no match at all the first
\* three interviewer times are proposed.
select_proposal(m, interviewer_times) ==
    IF m.exact # << >>
    THEN LET sorted == sort_by_diff(m.exact)
         IN  [path |-> "EXACT", proposed_times |-> times_of_first3(sorted),
              matches |-> [m EXCEPT !.exact = sorted]]
    ELSE IF m.same_day # << >>
    THEN LET sorted == sort_by_diff(m.same_day)
         IN  [path |-> "SAME_DAY", proposed_times |-> times_of_first3(sorted),
              matches |-> [m EXCEPT !.same_day = sorted]]
    ELSE IF m.close # << >>
    THEN LET sorted == sort_by_diff(m.close)
         IN  [path |-> "CLOSE", proposed_times |-> times_of_first3(sorted),
              matches |-> [m EXCEPT !.close = sorted]]
    ELSE [path |-> "general", proposed_times |-> general_availability(interviewer_times),
          matches |-> m]

\* a result that echoes only the candidate strings that parse
AvailableSlots_valid_only(cands, interviewer_times, proposed) ==
    [type |-> "available_slots",
     candidate_times |-> SelectSeq(cands, LAMBDA c : ~parse_raises(c)),
     interviewer_times |-> interviewer_times,
     proposed_meeting_times |-> proposed]

\* AvailableSlots(type=..., candidate_times=..., interviewer_times=...,
\*                proposed_meeting_times=...)
AvailableSlots(cands, interviewer_times, proposed) ==
    [type |-> "available_slots", candidate_times |-> cands,
     interviewer_times |-> interviewer_times,
     proposed_meeting_times |-> proposed]

\* The except branch (lines 352-369): 10 hours past the clock reading on each
\* of the next five days, weekdays only; the first three are proposed.
basic_fallback(cands, t) ==
    LET future_time == [i \in 1..5 |-> t + i * DAY + 10 * HOUR]
        weekdays == SelectSeq(future_time, LAMBDA f : weekday(f) < 5)
        mock_times == [i \in 1..Len(weekdays) |-> isoformat_Z(weekdays[i])]
    IN  AvailableSlots(cands, mock_times, FirstN(mock_times, 3))

\* the print loop of lines 275-277 parses every candidate string outside the
\* per-candidate try: a bad string raises ValueError to the outer except
print_loop_raises(cands) == \E k \in 1..Len(cands) : parse_raises(cands[k])

\* check_real_calendar as a whole: the value of every local at its end
check_real_calendar(cands, client, creds, t, fb) ==
    LET client_used == get_calendar_client(client, creds)
        gen == generate_available_slots(client_used.service, t, fb, 60, 9, 17, 14)
    IN  IF gen.raised \/ print_loop_raises(cands)
        THEN [client |-> client_used, slot_source |-> gen,
              matches |-> NoMatches, path |-> "basic_fallback",
              result |-> basic_fallback(cands, t)]
        ELSE LET interviewer_times == gen.slots
                 m == candidate_loop(cands, interviewer_times, 1, NoMatches)
                 sel == select_proposal(m, interviewer_times)
             IN  [client |-> client_used, slot_source |-> gen,
                  matches |-> sel.matches, path |-> sel.path,
                  result |-> AvailableSlots(cands, interviewer_times,
                                            FirstN(sel.proposed_times, 5))]

(***************************************************************************)
(* The inputs tried.                                                       *)
(***************************************************************************)
SeqsUpTo(S, n) == UNION {[1..k -> S] : k \in 0..n}

\* clock readings: a Saturday night, a Monday before business hours, a Monday
\* in the first minute of an hour, a Friday afternoon
NowSet == {At(0, 5, 22, 30, 0), At(1, 0, 8, 20, 0),
           At(1, 0, 10, 0, 30), At(1, 4, 15, 40, 10)}

\* candidate strings: on the hour and on the half hour of the first Monday,
\* early that Monday, the Sunday before, the Thursday after, an offset form
\* (Sunday 23:00 at -10:00, the instant of Monday 09:00 UTC), a string
\* without designator, a string that is no ISO instant, and Tuesday 14:00
\* (the candidate of the example in protocol.py, 2025-07-15 being a Tuesday)
CandStrings ==
    {ZStr(At(1, 0, 10, 0, 0)), ZStr(At(1, 0, 10, 30, 0)),
     ZStr(At(1, 0, 9, 30, 0)), ZStr(At(1, 0, 6, 30, 0)),
     ZStr(At(0, 6, 12, 0, 0)), ZStr(At(1, 3, 12, 0, 0)),
     OffsetStr(At(0, 6, 23, 0, 0), -10 * HOUR),
     NaiveStr(At(1, 0, 10, 0, 0)), BadStr,
     ZStr(At(1, 1, 14, 0, 0))}

\* busy intervals a free/busy answer may carry: without designator (one hour
\* of the first Monday; from that Monday 11:00 on; the whole horizon), with
\* the UTC designator, and with a start that does not parse
BusyEntries ==
    {[start |-> NaiveStr(At(1, 0, 10, 0, 0)), end |-> NaiveStr(At(1, 0, 11, 0, 0))],
     [start |-> NaiveStr(At(1, 0, 11, 0, 0)), end |-> NaiveStr(At(9, 0, 0, 0, 0))],
     [start |-> NaiveStr(At(0, 0, 0, 0, 0)), end |-> NaiveStr(At(9, 0, 0, 0, 0))],
     [start |-> ZStr(At(1, 0, 10, 0, 0)), end |-> ZStr(At(1, 0, 11, 0, 0))],
     [start |-> BadStr, end |-> NaiveStr(At(1, 0, 11, 0, 0))]}

NotQueried == [status |-> "not_queried", busy |-> << >>]

\* a calendar that is busy throughout except on the first Tuesday from 14:00
\* to 15:00 and on the Thursday after from 09:00 to 10:00: it leaves the two
\* interviewer slots of the example in protocol.py
ExampleBusy ==
    <<[start |-> NaiveStr(At(0, 0, 0, 0, 0)), end |-> NaiveStr(At(1, 1, 14, 0, 0))],
      [start |-> NaiveStr(At(1, 1, 15, 0, 0)), end |-> NaiveStr(At(1, 3, 9, 0, 0))],
      [start |-> NaiveStr(At(1, 3, 10, 0, 0)), end |-> NaiveStr(At(9, 0, 0, 0, 0))]>>

FreeBusyAnswers ==
    {[status |-> "error", busy |-> << >>]}
    \cup {[status |-> "ok", busy |-> b] :
              b \in SeqsUpTo(BusyEntries, MaxBusy) \cup {ExampleBusy}}

NotCalled == [raised |-> FALSE, slots |-> << >>, ended |-> FALSE]

NoResult ==
    [type |-> "none", candidate_times |-> << >>, interviewer_times |-> << >>,
     proposed_meeting_times |-> << >>]

\* no function is called directly, nothing was returned
NoCall == [fn |-> "none"]
NoReturn == [done |-> FALSE]

\* no concurrent callers, no sweep under way
NoThreads == << >>
NoLoop == [active |-> FALSE]

\* get_calendar_client constructs a client, and the constructor runs
\* _authenticate (line 18), only when the global holds none (line 249)
authentications(client) == IF client.exists THEN 0 ELSE 1

(***************************************************************************)
(* The state machine.                                                      *)
(***************************************************************************)
Init ==
    /\ calendar_client = NoClient
    /\ credentials \in {"none", "invalid", "valid"}
    /\ now \in NowSet
    /\ candidate_times \in SeqsUpTo(CandStrings, MaxCand)
    /\ pc = "idle"
    /\ freebusy = NotQueried
    /\ slot_source = NotCalled
    /\ matches = NoMatches
    /\ path = "none"
    /\ result = NoResult
    /\ call = NoCall
    /\ ret = NoReturn
    /\ auth_count = 0
    /\ threads = NoThreads
    /\ log = << >>
    /\ loop = NoLoop

\* get_calendar_client called on its own (create_meeting_event does so)
\* before the calendar check: the client is built and cached
GetCalendarClient ==
    /\ pc = "idle"
    /\ calendar_client' = get_calendar_client(calendar_client, credentials)
    /\ auth_count' = auth_count + authentications(calendar_client)
    /\ UNCHANGED <<credentials, now, candidate_times, pc, freebusy,
                   slot_source, matches, path, result, call, ret,
                   threads, log, loop>>

\* one call of check_real_calendar(candidate_times), from entry to return;
\* the free/busy service is asked only when the client has a service
CheckRealCalendar ==
    /\ pc = "idle"
    /\ \E fb \in (IF get_calendar_client(calendar_client, credentials).service = "None"
                  THEN {NotQueried} ELSE FreeBusyAnswers) :
         \E r \in {check_real_calendar(candidate_times, calendar_client,
                                       credentials, now, fb)} :
             /\ calendar_client' = r.client
             /\ freebusy' = fb
             /\ slot_source' = r.slot_source
             /\ matches' = r.matches
             /\ path' = r.path
             /\ result' = r.result
    /\ pc' = "done"
    /\ auth_count' = auth_count + authentications(calendar_client)
    /\ UNCHANGED <<credentials, now, candidate_times, call, ret, threads, log, loop>>

Next == GetCalendarClient \/ CheckRealCalendar

Spec == Init /\ [][Next]_vars

(***************************************************************************)
(* The slot source called with parameters of the caller's choice:          *)
(* GoogleCalendarClient().generate_available_slots(duration_minutes,       *)
(* business_start, business_end, days_ahead).                              *)
(***************************************************************************)
\* hours tried as business_start and business_end
BusinessHours == {0, 8, 9, 17, 18, 23}

SlotCalls ==
    {[fn |-> "generate_available_slots", duration_minutes |-> d,
      business_start |-> bs, business_end |-> be, days_ahead |-> da] :
        d \in {30, 60, 120}, bs \in BusinessHours, be \in BusinessHours,
        da \in {1, 3, 14}}

InitSlots ==
    /\ calendar_client = NoClient
    /\ credentials \in {"none", "valid"}
    /\ now \in NowSet
    /\ candidate_times = << >>
    /\ pc = "idle"
    /\ freebusy = NotQueried
    /\ slot_source = NotCalled
    /\ matches = NoMatches
    /\ path = "none"
    /\ result = NoResult
    /\ call \in SlotCalls
    /\ ret = NoReturn
    /\ auth_count = 0
    /\ threads = NoThreads
    /\ log = << >>
    /\ loop = NoLoop

\* one call of generate_available_slots on a new client, from entry to return
\* (or to the exception it raises)
GenerateAvailableSlots ==
    /\ pc = "idle"
    /\ call.fn = "generate_available_slots"
    /\ \E client \in {GoogleCalendarClient(credentials)} :
         \E fb \in (IF client.service = "None" THEN {NotQueried} ELSE FreeBusyAnswers) :
             /\ calendar_client' = client
             /\ freebusy' = fb
             /\ slot_source' = generate_available_slots(client.service, now, fb,
                                    call.duration_minutes, call.business_start,
                                    call.business_end, call.days_ahead)
    /\ pc' = "done"
    /\ ret' = [done |-> TRUE]
    /\ auth_count' = auth_count + 1
    /\ UNCHANGED <<credentials, now, candidate_times, matches, path, result, call,
                   threads, log, loop>>

NextSlots == GenerateAvailableSlots

SpecSlots == InitSlots /\ [][NextSlots]_vars

(***************************************************************************)
(* Properties of a finished call.                                          *)
(***************************************************************************)
Done == pc = "done"

Range(s) == {s[i] : i \in 1..Len(s)}

NoDuplicates(s) == \A i, j \in 1..Len(s) : i # j => s[i] # s[j]

\* the tier of the pair of a candidate string and an interviewer string of a
\* result: "none" when the pair is in no tier or cannot be formed
PairTier(candidate_time, interviewer_time) ==
    IF parse_raises(candidate_time) \/ parse_raises(interviewer_time) THEN "none"
    ELSE IF fromisoformat(candidate_time).aware # fromisoformat(interviewer_time).aware
    THEN "none"
    ELSE tier_of(fromisoformat(candidate_time), fromisoformat(interviewer_time))

\* the interviewer times of a result that are in the given tier with some
\* candidate time of that result
TierTimes(res, tier) ==
    {res.interviewer_times[k] : k \in
        {k \in 1..Len(res.interviewer_times) :
            \E j \in 1..Len(res.candidate_times) :
                PairTier(res.candidate_times[j], res.interviewer_times[k]) = tier}}

\* C1: whenever the slot source returned a non-empty slot sequence, the
\* proposal of the call has at least one and at most five elements, whatever
\* the candidate list was.
C1_ProposalNonEmptyAtMost5 ==
    (Done /\ ~slot_source.raised /\ slot_source.slots # << >>)
        => /\ Len(result.proposed_meeting_times) >= 1
           /\ Len(result.proposed_meeting_times) <= 5

C1_Witness ==
    /\ Done /\ ~slot_source.raised /\ Len(slot_source.slots) > 5
    /\ candidate_times # << >>
    /\ path = "general"
    /\ Len(result.proposed_meeting_times) = 3

\* C2: the proposal of a call never holds the same time twice.
C2_ProposalHasNoDuplicates ==
    Done => NoDuplicates(result.proposed_meeting_times)

\* C3: on every path, each proposed time is an element of the
\* interviewer_times carried in the same result.
C3_ProposedAreInterviewerTimes ==
    Done => \A i \in 1..Len(result.proposed_meeting_times) :
                result.proposed_meeting_times[i] \in Range(result.interviewer_times)

C3_Witness ==
    /\ Done /\ path = "SAME_DAY"
    /\ Len(result.proposed_meeting_times) >= 2
    /\ Len(candidate_times) >= 2

\* the call took the matching path (lines 284-350), not the except branch
Matched == Done /\ path # "basic_fallback"

\* C4: if some (candidate, interviewer) pair of the result is EXACT, every
\* proposed time is the interviewer time of an EXACT pair.
C4_ExactPrecedence ==
    (Done /\ TierTimes(result, "EXACT") # {})
        => \A i \in 1..Len(result.proposed_meeting_times) :
               result.proposed_meeting_times[i] \in TierTimes(result, "EXACT")

\* C4 on the matching path alone: there the EXACT tier does take precedence
\* over all candidates together.
C4_ExactPrecedenceWhenMatched ==
    (Matched /\ TierTimes(result, "EXACT") # {})
        => \A i \in 1..Len(result.proposed_meeting_times) :
               result.proposed_meeting_times[i] \in TierTimes(result, "EXACT")

\* C5: if no pair of the result is EXACT and some pair is SAME_DAY, every
\* proposed time is the interviewer time of a SAME_DAY pair.
C5_SameDayPrecedence ==
    (Done /\ TierTimes(result, "EXACT") = {} /\ TierTimes(result, "SAME_DAY") # {})
        => \A i \in 1..Len(result.proposed_meeting_times) :
               result.proposed_meeting_times[i] \in TierTimes(result, "SAME_DAY")

\* C5 on the matching path alone.
C5_SameDayPrecedenceWhenMatched ==
    (Matched /\ TierTimes(result, "EXACT") = {} /\ TierTimes(result, "SAME_DAY") # {})
        => \A i \in 1..Len(result.proposed_meeting_times) :
               result.proposed_meeting_times[i] \in TierTimes(result, "SAME_DAY")

NoTierPair(res) ==
    /\ TierTimes(res, "EXACT") = {}
    /\ TierTimes(res, "SAME_DAY") = {}
    /\ TierTimes(res, "CLOSE") = {}

Min(a, b) == IF a < b THEN a ELSE b

\* C6: when no (candidate, interviewer) pair of the result is in any tier,
\* the proposal is the first min(3, n) of the n interviewer times, in order.
C6_FallbackIsFirstThree ==
    (Done /\ NoTierPair(result))
        => /\ Len(result.proposed_meeting_times)
                = Min(3, Len(result.interviewer_times))
           /\ \A i \in 1..Len(result.proposed_meeting_times) :
                  result.proposed_meeting_times[i] = result.interviewer_times[i]
           /\ path = "general" => result.interviewer_times = slot_source.slots

C6_Witness ==
    /\ Done /\ path = "general" /\ NoTierPair(result)
    /\ candidate_times # << >>
    /\ Len(result.interviewer_times) > 3
    /\ Len(result.proposed_meeting_times) = 3

\* C6 with fewer interviewer times than three, and with no candidate at all
C6_WitnessShort ==
    /\ Done /\ path = "general" /\ candidate_times = << >>
    /\ Len(result.interviewer_times) \in {1, 2}
    /\ result.proposed_meeting_times = result.interviewer_times

\* C7: when the slot source returned the empty sequence, the proposal is
\* empty, whatever the candidate list holds.
C7_EmptySlotsEmptyProposal ==
    (Done /\ ~slot_source.raised /\ slot_source.slots = << >>)
        => result.proposed_meeting_times = << >>

\* C7 for candidate lists whose strings all parse.
C7_EmptySlotsEmptyProposalWhenParsed ==
    (Done /\ ~slot_source.raised /\ slot_source.slots = << >>
          /\ ~print_loop_raises(candidate_times))
        => result.proposed_meeting_times = << >>

\* the proposal was taken from a match list
ChosenTier == Done /\ path \in {"EXACT", "SAME_DAY", "CLOSE"}

\* the match list of the chosen tier, as the call left it (sorted in place)
Chosen ==
    IF path = "EXACT" THEN matches.exact
    ELSE IF path = "SAME_DAY" THEN matches.same_day
    ELSE matches.close

\* the pairs of the chosen tier in the order the two loops meet them:
\* candidates in list order and, for one candidate, interviewer times in list
\* order; each with its tuple (interviewer time, difference)
Discovered ==
    LET cands == result.candidate_times
        ivs == result.interviewer_times
        n == Len(ivs)
        all == [p \in 1..(Len(cands) * n) |-> <<((p - 1) \div n) + 1, ((p - 1) % n) + 1>>]
        hits == SelectSeq(all, LAMBDA jk : PairTier(cands[jk[1]], ivs[jk[2]]) = path)
    IN  [i \in 1..Len(hits) |->
            <<ivs[hits[i][2]],
              time_diff(fromisoformat(cands[hits[i][1]]), fromisoformat(ivs[hits[i][2]]))>>]

\* position of an interviewer time in the interviewer list of the result
IndexOf(t) ==
    CHOOSE k \in 1..Len(result.interviewer_times) : result.interviewer_times[k] = t

Ascending(s) == \A i \in 1..(Len(s) - 1) : s[i][2] <= s[i + 1][2]

ProposalIsHeadOfChosen ==
    /\ Len(result.proposed_meeting_times) = Min(3, Len(Chosen))
    /\ \A i \in 1..Len(result.proposed_meeting_times) :
           result.proposed_meeting_times[i] = Chosen[i][1]

\* C8: the proposal follows ascending difference, and two proposed
\* entries of equal difference stand in the order their slots have in the
\* interviewer list, also when they come from different candidates.
C8_TiesInInterviewerOrder ==
    ChosenTier
        => /\ ProposalIsHeadOfChosen
           /\ Ascending(Chosen)
           /\ \A i, j \in 1..Len(result.proposed_meeting_times) :
                  (i < j /\ Chosen[i][2] = Chosen[j][2])
                      => IndexOf(result.proposed_meeting_times[i])
                             <= IndexOf(result.proposed_meeting_times[j])

\* What the stable sort of line 322 does guarantee (C8 with discovery order
\* in place of interviewer-list order): the proposal follows ascending
\* difference, and entries of equal difference stand in the order their pairs
\* were discovered (candidates in list order, then interviewer times in list
\* order).
C8_TiesInDiscoveryOrder ==
    ChosenTier
        => /\ ProposalIsHeadOfChosen
           /\ Ascending(Chosen)
           /\ \A i \in 1..Len(result.proposed_meeting_times) :
                  SelectSeq(Chosen, LAMBDA x : x[2] = Chosen[i][2])
                      = SelectSeq(Discovered, LAMBDA x : x[2] = Chosen[i][2])

\* two proposed entries of equal difference, from different candidates, that
\* stand against the order of the interviewer list, in a proposal without
\* repeated entries
C8_Witness ==
    /\ ChosenTier
    /\ \E i, j \in 1..Len(result.proposed_meeting_times) :
           /\ i < j
           /\ Chosen[i][2] = Chosen[j][2]
           /\ IndexOf(result.proposed_meeting_times[i])
                  > IndexOf(result.proposed_meeting_times[j])
    /\ NoDuplicates(result.proposed_meeting_times)

\* C9: a call whose candidate list holds unparseable strings returns the
\* interviewer times and the proposal of the same call (same client, clock
\* and free/busy answer) made without those strings.
C9_BadEntriesOnlyDropped ==
    (Done /\ print_loop_raises(candidate_times))
        => LET valid == SelectSeq(candidate_times, LAMBDA c : ~parse_raises(c))
               r == check_real_calendar(valid, calendar_client, credentials,
                                        now, freebusy).result
           IN  /\ result.interviewer_times = r.interviewer_times
               /\ result.proposed_meeting_times = r.proposed_meeting_times

\* C10: whatever fails on the live calendar path, generate_available_slots
\* returns a list, and a call whose candidates all parse does not take the
\* except branch.
C10_SlotSourceNeverRaises ==
    Done => /\ ~slot_source.raised
            /\ ~print_loop_raises(candidate_times) => path # "basic_fallback"

\* C10 for the failures that are caught: missing or invalid credentials and
\* a failing free/busy query.
C10_AuthAndQueryFailuresAbsorbed ==
    (Done /\ (credentials # "valid" \/ freebusy.status = "error"))
        => /\ ~slot_source.raised
           /\ Len(slot_source.slots) = SlotCap

(***************************************************************************)
(* Classification and ranking of the pairs.                                *)
(***************************************************************************)
\* the pairs (j, k) of a result whose difference exists: both strings parse,
\* and both carry an offset
Pairs(res) ==
    {jk \in (1..Len(res.candidate_times)) \X (1..Len(res.interviewer_times)) :
        /\ res.candidate_times[jk[1]].kind \in {"Z", "offset"}
        /\ res.interviewer_times[jk[2]].kind \in {"Z", "offset"}}

\* hoursDiff of a pair, in seconds
PairDiff(res, jk) ==
    LET c == res.candidate_times[jk[1]]
        i == res.interviewer_times[jk[2]]
    IN  abs((c.wall - c.off) - (i.wall - i.off))

\* the two datetimes of a pair show the same calendar date
PairSameDay(res, jk) ==
    res.candidate_times[jk[1]].wall \div DAY = res.interviewer_times[jk[2]].wall \div DAY

\* the class C11 gives a pair
PairClass(res, jk) ==
    LET d == PairDiff(res, jk)
        sd == PairSameDay(res, jk)
    IN  IF sd /\ d <= 1 * HOUR THEN "EXACT"
        ELSE IF sd /\ 1 * HOUR < d /\ d <= 3 * HOUR THEN "SAME_DAY"
        ELSE IF d <= 24 * HOUR THEN "CLOSE"
        ELSE "none"

PairTuple(res, jk) == <<res.interviewer_times[jk[2]], PairDiff(res, jk)>>

ClassPairs(res, class) == {jk \in Pairs(res) : PairClass(res, jk) = class}

\* a match list holds one tuple for each pair of its class and nothing else
ListHoldsClass(list, res, class) ==
    /\ Len(list) = Cardinality(ClassPairs(res, class))
    /\ Range(list) = {PairTuple(res, jk) : jk \in ClassPairs(res, class)}

\* C11: every pair is in exactly one class, with inclusive bounds: the EXACT
\* list holds the same-day pairs at most 1 hour apart, the SAME_DAY list the
\* same-day pairs more than 1 and at most 3 hours apart, the CLOSE list the
\* other pairs at most 24 hours apart; pairs further apart are in no list.
C11_PairsClassifiedOnce ==
    Matched
        => /\ ListHoldsClass(matches.exact, result, "EXACT")
           /\ ListHoldsClass(matches.same_day, result, "SAME_DAY")
           /\ ListHoldsClass(matches.close, result, "CLOSE")

\* a call whose pairs sit on every bound: 1 hour and 3 hours apart on the
\* same day, 24 hours apart, on different days within the hour, and further
\* apart than a day
C11_Witness ==
    /\ Matched
    /\ \E jk \in ClassPairs(result, "EXACT") : PairDiff(result, jk) = 1 * HOUR
    /\ \E jk \in ClassPairs(result, "SAME_DAY") : PairDiff(result, jk) = 3 * HOUR
    /\ \E jk \in ClassPairs(result, "CLOSE") : PairDiff(result, jk) = 24 * HOUR
    /\ \E jk \in ClassPairs(result, "CLOSE") :
           ~PairSameDay(result, jk) /\ PairDiff(result, jk) < 1 * HOUR
    /\ ClassPairs(result, "none") # {}
    /\ PairTuple(result, CHOOSE jk \in ClassPairs(result, "EXACT") : TRUE)
           \in Range(matches.exact)

\* C12: the proposal is made of the at most three pairs of the chosen tier
\* that are closest, ranked over the pairs of all candidates together: the
\* chosen list holds every pair of the tier, the proposal is its head, and no
\* pair left out is strictly closer than a pair taken.
C12_ClosestThreeOverAllCandidates ==
    ChosenTier
        => /\ ListHoldsClass(Chosen, result, path)
           /\ ProposalIsHeadOfChosen
           /\ \A i \in 1..Len(result.proposed_meeting_times) :
                  \A l \in (Len(result.proposed_meeting_times) + 1)..Len(Chosen) :
                      Chosen[l][2] >= Chosen[i][2]

\* a call with two candidates where a pair of the first candidate is left
\* out for a closer pair of the second
C12_Witness ==
    /\ ChosenTier
    /\ Len(result.candidate_times) = 2
    /\ Len(Chosen) > 3
    /\ \E jk \in ClassPairs(result, path) :
           jk[1] = 1 /\ PairDiff(result, jk) > Chosen[3][2]
    /\ \E i \in 1..3 :
           /\ \E jk \in ClassPairs(result, path) :
                  jk[1] = 2 /\ PairTuple(result, jk) = Chosen[i]
           /\ \A jk \in ClassPairs(result, path) :
                  jk[1] = 1 => PairTuple(result, jk) # Chosen[i]

\* the UTC calendar date of the instant an ISO string denotes
UtcDate(str) == (str.wall - str.off) \div DAY

\* C13: the same-day test goes by the UTC dates of the two instants, also for
\* offset-form strings: a pair on one UTC date at most 3 hours apart is in a
\* same-day tier (EXACT or SAME_DAY), and a pair on two UTC dates at most 24
\* hours apart is in the CLOSE tier.
C13_SameDayIsUtcDate ==
    Matched
        => \A jk \in Pairs(result) :
               LET same_utc_date ==
                       UtcDate(result.candidate_times[jk[1]])
                           = UtcDate(result.interviewer_times[jk[2]])
               IN  /\ (same_utc_date /\ PairDiff(result, jk) <= 3 * HOUR)
                          => PairTuple(result, jk)
                                 \in Range(matches.exact) \cup Range(matches.same_day)
                   /\ (~same_utc_date /\ PairDiff(result, jk) <= 24 * HOUR)
                          => PairTuple(result, jk) \in Range(matches.close)

\* C13 for strings with the UTC designator, where the date read off the
\* datetime is the UTC date
C13_SameDayIsUtcDateForZ ==
    Matched
        => \A jk \in Pairs(result) :
               result.candidate_times[jk[1]].kind = "Z"
                   => (PairSameDay(result, jk)
                          <=> UtcDate(result.candidate_times[jk[1]])
                                  = UtcDate(result.interviewer_times[jk[2]]))

\* C14: with the one candidate Tuesday 14:00 (2025-07-15T14:00:00Z) and the
\* interviewer slots Tuesday 14:00 and Thursday 09:00 (2025-07-17T09:00:00Z),
\* the proposal is exactly the Tuesday slot.
C14_ExampleProposal ==
    (/\ Done
     /\ candidate_times = <<ZStr(At(1, 1, 14, 0, 0))>>
     /\ ~slot_source.raised
     /\ slot_source.slots = <<ZStr(At(1, 1, 14, 0, 0)), ZStr(At(1, 3, 9, 0, 0))>>)
        => /\ result.interviewer_times = slot_source.slots
           /\ result.proposed_meeting_times = <<ZStr(At(1, 1, 14, 0, 0))>>

C14_Witness ==
    /\ Done
    /\ candidate_times = <<ZStr(At(1, 1, 14, 0, 0))>>
    /\ result.interviewer_times = <<ZStr(At(1, 1, 14, 0, 0)), ZStr(At(1, 3, 9, 0, 0))>>
    /\ path = "EXACT"
    /\ matches.exact = <<<<ZStr(At(1, 1, 14, 0, 0)), 0>>>>

\* C15: on every path the result echoes the candidate list as it was given,
\* element for element, and carries as interviewer_times the sequence the
\* proposal was drawn from: the slot source's list on the matching path, the
\* except branch's own times otherwise.
C15_ResultEchoesInputs ==
    Done
        => /\ result.candidate_times = candidate_times
           /\ \A i \in 1..Len(result.proposed_meeting_times) :
                  result.proposed_meeting_times[i] \in Range(result.interviewer_times)
           /\ path # "basic_fallback" => result.interviewer_times = slot_source.slots
           /\ path = "basic_fallback"
                  => result.proposed_meeting_times = FirstN(result.interviewer_times, 3)

\* C15, the frame: no step changes the list that was passed in
C15_InputNotMutated == [][candidate_times' = candidate_times]_vars

\* a call on the except branch and a call on the matching path with a string
\* the matching skips: both echo the list in full
C15_Witness ==
    /\ Done
    /\ Len(candidate_times) = 2
    /\ \E k \in 1..2 : candidate_times[k].kind \in {"bad", "naive"}
    /\ \E k \in 1..2 : candidate_times[k].kind = "Z"
    /\ result.candidate_times = candidate_times
    /\ path = "basic_fallback"

C15_WitnessMatched ==
    /\ Done
    /\ Len(candidate_times) = 2
    /\ candidate_times[1].kind = "naive"
    /\ result.candidate_times = candidate_times
    /\ path = "EXACT"

(***************************************************************************)
(* Properties of the slot source, called with any parameters.              *)
(***************************************************************************)
\* a call of generate_available_slots has returned a list
SlotsReturned ==
    /\ call.fn = "generate_available_slots"
    /\ pc = "done"
    /\ ~slot_source.raised

\* the wall clock reading of the k-th slot returned
SlotAt(k) == slot_source.slots[k].wall

\* C18: with business_start < business_end every slot returned, by the live
\* sweep and by the smart mock sweep, is on a weekday (Monday to Friday),
\* exactly on the hour, at an hour h with business_start <= h < business_end.
C18_SlotsOnWeekdayBusinessHours ==
    (SlotsReturned /\ call.business_start < call.business_end)
        => \A k \in 1..Len(slot_source.slots) :
               /\ slot_source.slots[k].kind = "Z"
               /\ (SlotAt(k) \div DAY) % 7 \in 0..4
               /\ SlotAt(k) % HOUR = 0
               /\ call.business_start <= (SlotAt(k) % DAY) \div HOUR
               /\ (SlotAt(k) % DAY) \div HOUR < call.business_end

\* the live sweep, started on a Saturday night, has skipped the weekend and
\* Monday's busy hour and filled its list
C18_Witness ==
    /\ SlotsReturned
    /\ calendar_client.service = "service"
    /\ freebusy.status = "ok" /\ freebusy.busy # << >>
    /\ (now \div DAY) % 7 = 5
    /\ call.business_start = 8 /\ call.business_end = 18
    /\ Len(slot_source.slots) = SlotCap
    /\ ZStr(At(1, 0, 10, 0, 0)) \notin Range(slot_source.slots)

\* the smart mock sweep, started on a Friday afternoon
C18_WitnessMock ==
    /\ SlotsReturned
    /\ calendar_client.service = "None"
    /\ (now \div DAY) % 7 = 4
    /\ call.business_start = 8 /\ call.business_end = 18
    /\ Len(slot_source.slots) = SlotCap

\* C19: the slot source returns at most 20 slots, in strictly ascending
\* order of time.
C19_AtMost20Ascending ==
    SlotsReturned
        => /\ Len(slot_source.slots) <= 20
           /\ \A k \in 1..(Len(slot_source.slots) - 1) : SlotAt(k) < SlotAt(k + 1)

\* a sweep that stopped at the cap with days of its window left
C19_Witness ==
    /\ SlotsReturned
    /\ call.days_ahead = 14
    /\ Len(slot_source.slots) = 20
    /\ slot_source.ended
    /\ SlotAt(20) + 7 * DAY < now + 14 * DAY

\* the busy intervals the sweep was given, as wall clock readings
BusyWalls ==
    {[start |-> freebusy.busy[k].start.wall, end |-> freebusy.busy[k].end.wall] :
        k \in 1..Len(freebusy.busy)}

\* half-open overlap of the slot starting at t with a busy interval
Overlaps(t, b) ==
    t < b.end /\ t + call.duration_minutes * MINUTE > b.start

\* C20: no slot returned overlaps a busy interval (slotStart < busyEnd and
\* slotEnd > busyStart), and touching a busy interval does not exclude a
\* slot: between the first and the last slot returned, every weekday hour in
\* business hours that overlaps no busy interval is returned.
C20_NoOverlapTouchingKept ==
    (SlotsReturned /\ calendar_client.service = "service" /\ freebusy.status = "ok")
        => /\ \A k \in 1..Len(slot_source.slots) :
                  \A b \in BusyWalls : ~Overlaps(SlotAt(k), b)
           /\ slot_source.slots # << >>
                  => \A n \in (SlotAt(1) \div HOUR)..(SlotAt(Len(slot_source.slots)) \div HOUR) :
                         (/\ ((n * HOUR) \div DAY) % 7 \in 0..4
                          /\ call.business_start <= n % 24
                          /\ n % 24 < call.business_end
                          /\ \A b \in BusyWalls : ~Overlaps(n * HOUR, b))
                             => ZStr(n * HOUR) \in Range(slot_source.slots)

\* a slot that ends where a busy interval starts and a slot that starts
\* where it ends are both returned, and the hour between them is not
C20_Witness ==
    /\ SlotsReturned
    /\ calendar_client.service = "service"
    /\ \E b \in BusyWalls :
           /\ \E k \in 1..Len(slot_source.slots) :
                  SlotAt(k) + call.duration_minutes * MINUTE = b.start
           /\ \E k \in 1..Len(slot_source.slots) : SlotAt(k) = b.end
           /\ ZStr(b.start) \notin Range(slot_source.slots)
           /\ \E k \in 1..Len(slot_source.slots) : SlotAt(k) < b.start

(***************************************************************************)
(* src/tools/check_calendar.py: the matcher on the mock calendar.          *)
(***************************************************************************)
\* MOCK_INTERVIEWER_AVAILABILITY (lines 7-16); 2025-07-15 is the Tuesday of
\* week 1
MOCK_INTERVIEWER_AVAILABILITY ==
    <<ZStr(At(1, 1, 14, 0, 0)), ZStr(At(1, 1, 21, 0, 0)),
      ZStr(At(1, 2, 10, 0, 0)), ZStr(At(1, 2, 21, 0, 0)),
      ZStr(At(1, 3, 9, 0, 0)), ZStr(At(1, 3, 14, 0, 0)),
      ZStr(At(1, 4, 15, 0, 0)), ZStr(At(1, 4, 20, 0, 0))>>

\* a rounding that always goes down to the hour
round_to_hour_down(t) == replace_minute0(t)

\* lines 31-34: up to the next hour from minute 30 on, down otherwise
round_to_hour(t) ==
    IF minute(t) >= 30 THEN replace_minute0(t) + HOUR ELSE replace_minute0(t)

\* dt.isoformat().replace('+00:00', 'Z'): a UTC offset is written as 'Z', any
\* other offset as it is, a naive datetime without designator
isoformat_replace(dt) ==
    IF dt.aware /\ dt.off = 0 THEN ZStr(dt.wall)
    ELSE IF dt.aware THEN OffsetStr(dt.wall, dt.off)
    ELSE NaiveStr(dt.wall)

\* normalize_time_to_hour_boundary (lines 18-38): a string that does not
\* parse comes back as it is
normalize_time_to_hour_boundary(time_str) ==
    IF parse_raises(time_str) THEN time_str
    ELSE LET dt == fromisoformat(time_str)
         IN  isoformat_replace([dt EXCEPT !.wall = round_to_hour(dt.wall)])

\* list(set(matches)): the distinct elements, in the order the hashing of
\* the process gives them; hash_seed stands for that order
RECURSIVE list_of_set(_, _)
list_of_set(S, hash_seed) ==
    IF S = {} THEN << >>
    ELSE LET key(x) == (x.wall - x.off) * 4
                           + (CASE x.kind = "Z" -> 0 [] x.kind = "offset" -> 1
                                [] x.kind = "naive" -> 2 [] OTHER -> 3)
             first == CHOOSE x \in S :
                          \A y \in S : IF hash_seed = "ascending"
                                       THEN key(x) <= key(y) ELSE key(x) >= key(y)
         IN  <<first>> \o list_of_set(S \ {first}, hash_seed)

\* find_nearby_times (lines 68-102): the interviewer strings on the date of
\* a candidate and at most 2 hours from it, candidate by candidate; a pair
\* that cannot be parsed or subtracted is skipped
find_nearby_times(cands, interviewer_times) ==
    LET near(c, i) ==
            /\ ~parse_raises(c) /\ ~parse_raises(i)
            /\ date(fromisoformat(c).wall) = date(fromisoformat(i).wall)
            /\ fromisoformat(c).aware = fromisoformat(i).aware
            /\ abs(utc(fromisoformat(i)) - utc(fromisoformat(c))) <= 7200
        F[j \in 0..Len(cands)] ==
            IF j = 0 THEN << >>
            ELSE F[j - 1] \o SelectSeq(interviewer_times, LAMBDA i : near(cands[j], i))
    IN  F[Len(cands)]

\* find_time_matches (lines 40-66): the normalized candidate strings found
\* among the normalized interviewer strings, else the nearby times
find_time_matches(cands, interviewer_times, hash_seed) ==
    LET normalized_candidate ==
            [j \in 1..Len(cands) |-> normalize_time_to_hour_boundary(cands[j])]
        normalized_interviewer ==
            {normalize_time_to_hour_boundary(interviewer_times[k]) :
                k \in 1..Len(interviewer_times)}
        exact == SelectSeq(normalized_candidate, LAMBDA c : c \in normalized_interviewer)
        found == IF exact # << >> THEN exact
                 ELSE find_nearby_times(cands, interviewer_times)
    IN  list_of_set({found[i] : i \in 1..Len(found)}, hash_seed)

\* generate_alternative_times (lines 104-140)
generate_alternative_times(cands) ==
    IF cands = << >> THEN FirstN(MOCK_INTERVIEWER_AVAILABILITY, 3)
    ELSE LET candidate_dates ==
                 {date(fromisoformat(cands[j]).wall) :
                     j \in {j \in 1..Len(cands) : ~parse_raises(cands[j])}}
             alternatives ==
                 SelectSeq(MOCK_INTERVIEWER_AVAILABILITY,
                           LAMBDA t : date(fromisoformat(t).wall) \in candidate_dates)
         IN  IF alternatives = << >> THEN FirstN(MOCK_INTERVIEWER_AVAILABILITY, 3)
             ELSE FirstN(alternatives, 3)

\* a check that echoes the list it was given, unfiltered
check_calendar_echo_all(cands, hash_seed) ==
    LET valid_candidate_times == SelectSeq(cands, LAMBDA c : ~parse_raises(c))
        matched == find_time_matches(valid_candidate_times,
                                     MOCK_INTERVIEWER_AVAILABILITY, hash_seed)
    IN  AvailableSlots(cands, MOCK_INTERVIEWER_AVAILABILITY,
                       IF matched = << >>
                       THEN generate_alternative_times(valid_candidate_times)
                       ELSE matched)

\* check_calendar (lines 142-176)
check_calendar(cands, hash_seed) ==
    LET valid_candidate_times == SelectSeq(cands, LAMBDA c : ~parse_raises(c))
        matched == find_time_matches(valid_candidate_times,
                                     MOCK_INTERVIEWER_AVAILABILITY, hash_seed)
        proposed_times == IF matched = << >>
                          THEN generate_alternative_times(valid_candidate_times)
                          ELSE matched
    IN  AvailableSlots(valid_candidate_times, MOCK_INTERVIEWER_AVAILABILITY,
                       proposed_times)

(***************************************************************************)
(* normalize_time_to_hour_boundary applied to a string, and again to what  *)
(* it returned.                                                            *)
(***************************************************************************)
\* wall clock readings around the half hour, at midnight, in the afternoon
\* and in the last hour of a day (a Tuesday and a Sunday)
NormWalls ==
    {At(1, d, h, m, sec) : d \in {1, 6}, h \in {0, 14, 23},
                           m \in {0, 29, 30, 31, 59}, sec \in {0, 1, 59}}

\* the strings tried: with 'Z', with +00:00, with +05:30, without designator,
\* and one that is no ISO instant
NormStrings ==
    {ZStr(t) : t \in NormWalls} \cup {OffsetStr(t, 0) : t \in NormWalls}
    \cup {OffsetStr(t, 5 * HOUR + 30 * MINUTE) : t \in NormWalls}
    \cup {NaiveStr(t) : t \in NormWalls} \cup {BadStr}

InitNormalize ==
    /\ calendar_client = NoClient
    /\ credentials = "none"
    /\ now = At(1, 0, 8, 20, 0)
    /\ candidate_times = << >>
    /\ pc = "idle"
    /\ freebusy = NotQueried
    /\ slot_source = NotCalled
    /\ matches = NoMatches
    /\ path = "none"
    /\ result = NoResult
    /\ call \in {[fn |-> "normalize_time_to_hour_boundary", time_str |-> str] :
                    str \in NormStrings}
    /\ ret = NoReturn
    /\ auth_count = 0
    /\ threads = NoThreads
    /\ log = << >>
    /\ loop = NoLoop

\* normalize_time_to_hour_boundary(time_str)
Normalize ==
    /\ call.fn = "normalize_time_to_hour_boundary"
    /\ ~ret.done
    /\ ret' = [done |-> TRUE, times |-> 1,
               value |-> normalize_time_to_hour_boundary(call.time_str)]
    /\ UNCHANGED <<calendar_client, credentials, now, candidate_times, pc,
                   freebusy, slot_source, matches, path, result, call,
                   auth_count, threads, log, loop>>

\* the function applied to the string it returned
NormalizeAgain ==
    /\ call.fn = "normalize_time_to_hour_boundary"
    /\ ret.done /\ ret.times = 1
    /\ call' = [call EXCEPT !.time_str = ret.value]
    /\ ret' = [done |-> TRUE, times |-> 2,
               value |-> normalize_time_to_hour_boundary(ret.value)]
    /\ UNCHANGED <<calendar_client, credentials, now, candidate_times, pc,
                   freebusy, slot_source, matches, path, result,
                   auth_count, threads, log, loop>>

NextNormalize == Normalize \/ NormalizeAgain

SpecNormalize == InitNormalize /\ [][NextNormalize]_vars

(***************************************************************************)
(* check_calendar(candidate_times) on the mock calendar.                   *)
(***************************************************************************)
\* candidate strings: on a mock slot, 20 minutes after and before it, an hour
\* and a half after it, on another mock slot, on a Saturday, the first mock
\* slot without designator and with +00:00, and a string that is no ISO
\* instant
MockCandStrings ==
    {ZStr(At(1, 1, 14, 0, 0)), ZStr(At(1, 1, 14, 20, 0)), ZStr(At(1, 1, 13, 40, 0)),
     ZStr(At(1, 1, 15, 30, 0)), ZStr(At(1, 2, 10, 0, 0)), ZStr(At(1, 5, 10, 0, 0)),
     NaiveStr(At(1, 1, 14, 0, 0)), OffsetStr(At(1, 1, 14, 0, 0), 0), BadStr}

\* a candidate who names the first six of the eight mock slots
SixMockSlots == FirstN(MOCK_INTERVIEWER_AVAILABILITY, 6)

InitCheckCalendar ==
    /\ calendar_client = NoClient
    /\ credentials = "none"
    /\ now = At(1, 0, 8, 20, 0)
    /\ candidate_times \in SeqsUpTo(MockCandStrings, MaxCand) \cup {SixMockSlots}
    /\ pc = "idle"
    /\ freebusy = NotQueried
    /\ slot_source = NotCalled
    /\ matches = NoMatches
    /\ path = "none"
    /\ result = NoResult
    /\ call \in {[fn |-> "check_calendar", hash_seed |-> h] :
                    h \in {"ascending", "descending"}}
    /\ ret = NoReturn
    /\ auth_count = 0
    /\ threads = NoThreads
    /\ log = << >>
    /\ loop = NoLoop

\* one call of check_calendar(candidate_times), from entry to return
CheckCalendar ==
    /\ call.fn = "check_calendar"
    /\ pc = "idle"
    /\ result' = check_calendar(candidate_times, call.hash_seed)
    /\ pc' = "done"
    /\ ret' = [done |-> TRUE]
    /\ UNCHANGED <<calendar_client, credentials, now, candidate_times, freebusy,
                   slot_source, matches, path, call,
                   auth_count, threads, log, loop>>

NextCheckCalendar == CheckCalendar

SpecCheckCalendar == InitCheckCalendar /\ [][NextCheckCalendar]_vars

(***************************************************************************)
(* Properties of check_calendar and of the normalization.                  *)
(***************************************************************************)
CheckCalendarDone == call.fn = "check_calendar" /\ pc = "done"

\* C16: check_calendar drops exactly the strings that do not parse: the
\* result's candidate_times is the parseable part of the input in input
\* order, the call returns, and the proposal is that of the call made with
\* the parseable strings only.
C16_UnparseableDropped ==
    CheckCalendarDone
        => LET valid == SelectSeq(candidate_times, LAMBDA c : c.kind # "bad")
           IN  /\ ret.done
               /\ result.candidate_times = valid
               /\ result.proposed_meeting_times
                      = check_calendar(valid, call.hash_seed).proposed_meeting_times

\* a call with a string that does not parse before one that matches a slot
C16_Witness ==
    /\ CheckCalendarDone
    /\ Len(candidate_times) = 2
    /\ candidate_times[1].kind = "bad"
    /\ candidate_times[2].kind = "Z"
    /\ result.candidate_times = <<candidate_times[2]>>
    /\ result.proposed_meeting_times = <<ZStr(At(1, 1, 14, 0, 0))>>

\* the function has been applied once to a string that parses
NormalizedOnce ==
    /\ call.fn = "normalize_time_to_hour_boundary"
    /\ ret.done /\ ret.times = 1
    /\ call.time_str.kind # "bad"

\* C17: the result is on the whole hour (minute and second zero) at the same
\* offset, it is the next hour exactly when the minute is 30 or more and the
\* hour of the input otherwise, hence at most half an hour away; applied to
\* its own result the function returns that result.
C17_NearestHourIdempotent ==
    /\ NormalizedOnce
           => LET t == call.time_str.wall
                  floor == t - (t % HOUR)
              IN  /\ ret.value.kind # "bad"
                  /\ ret.value.off = call.time_str.off
                  /\ ret.value.wall % HOUR = 0
                  /\ (t % HOUR) \div MINUTE >= 30 => ret.value.wall = floor + HOUR
                  /\ (t % HOUR) \div MINUTE < 30 => ret.value.wall = floor
                  /\ ret.value.wall - t <= 30 * MINUTE
                  /\ t - ret.value.wall < 30 * MINUTE
    /\ (call.fn = "normalize_time_to_hour_boundary" /\ ret.done /\ ret.times = 2)
           => ret.value = call.time_str

\* a reading in the last half hour of a day is carried into the next day
C17_Witness ==
    /\ NormalizedOnce
    /\ (call.time_str.wall % DAY) \div HOUR = 23
    /\ (call.time_str.wall % HOUR) \div MINUTE = 30
    /\ call.time_str.wall % MINUTE = 0
    /\ ret.value.wall \div DAY = (call.time_str.wall \div DAY) + 1
    /\ ret.value.wall % DAY = 0

\* the second application has returned the string it was given
C17_WitnessTwice ==
    /\ call.fn = "normalize_time_to_hour_boundary"
    /\ ret.done /\ ret.times = 2
    /\ call.time_str.kind = "Z"
    /\ ret.value = call.time_str

\* ---------------------------------------------------------------------------
\* The window of the sweep
\* ---------------------------------------------------------------------------

\* the next full hour at or after the instant t
next_full_hour(t) == IF t % HOUR = 0 THEN t ELSE t - (t % HOUR) + HOUR

\* C21: every slot returned is at or after the instant of the call and
\* strictly before the first hour swept plus days_ahead days, whatever the
\* instant of the call, one within the first minute of an hour included.
C21_SlotsWithinWindow ==
    SlotsReturned
       => \A k \in 1..Len(slot_source.slots) :
              /\ SlotAt(k) >= now
              /\ SlotAt(k) < next_full_hour(now) + call.days_ahead * DAY

\* Lines 116-120 and 162-166 look at the minute of the clock only: what holds
\* of every call is that no slot is earlier than the start of the hour of the
\* call, and that the window ends days_ahead days after the first hour swept.
C21_SlotsFromTheHourOfTheCall ==
    SlotsReturned
       => \A k \in 1..Len(slot_source.slots) :
              /\ SlotAt(k) >= now - (now % HOUR)
              /\ SlotAt(k) < first_hour(now) + call.days_ahead * DAY

\* a call within a minute past the hour, with seconds on the clock, that got
\* the hour already begun as its first slot
C21_PastSlotReturned ==
    /\ SlotsReturned
    /\ minute(now) = 0 /\ now % MINUTE > 0
    /\ Len(slot_source.slots) > 0
    /\ SlotAt(1) < now

\* ---------------------------------------------------------------------------
\* The synthetic generator and the business hours
\* ---------------------------------------------------------------------------

\* the hours on the clock from the first hour swept to the end of the window
SweptHours ==
    {first_hour(now) + j * HOUR : j \in 0..(24 * call.days_ahead - 1)}

\* the slots a generator that honours the business hours has to emit
BusinessSlots ==
    {t \in SweptHours : /\ weekday(t) \in 0..4
                        /\ call.business_start <= hour(t)
                        /\ hour(t) < call.business_end}

SlotWalls == {SlotAt(k) : k \in 1..Len(slot_source.slots)}

\* C22: without a service, for business_start < business_end, the synthetic
\* generator emits every weekday hour h of the window with
\* business_start <= h < business_end, up to the cap: none is left out
\* before the last slot emitted, and none at all when the cap was not hit.
C22_MockHonoursBusinessHours ==
    (SlotsReturned /\ calendar_client.service = "None"
                   /\ call.business_start < call.business_end)
       => \A t \in BusinessSlots :
              (Len(slot_source.slots) < SlotCap
                  \/ t <= SlotAt(Len(slot_source.slots)))
                 => t \in SlotWalls

\* What line 187 leaves of it: the slots emitted are the business slots at
\* the hours 9 to 16.
C22_MockEmitsNineToFour ==
    (SlotsReturned /\ calendar_client.service = "None"
                   /\ call.business_start < call.business_end)
       => \A t \in BusinessSlots :
              ((Len(slot_source.slots) < SlotCap
                   \/ t <= SlotAt(Len(slot_source.slots)))
                  /\ hour(t) \in MockHours)
                 => t \in SlotWalls

\* a synthetic sweep for the hours 8 to 18 that left out 08:00 and 17:00
C22_HoursOmitted ==
    /\ SlotsReturned
    /\ calendar_client.service = "None"
    /\ call.business_start = 8 /\ call.business_end = 18
    /\ Len(slot_source.slots) > 0
    /\ \A k \in 1..Len(slot_source.slots) : hour(SlotAt(k)) \notin {8, 17}

(***************************************************************************)
(* The sweep of the slot source, pass by pass: the while loops of lines    *)
(* 122-154 and 168-190 with their locals.  A call that entered the loop    *)
(* goes on running; nothing else runs in between.                          *)
(***************************************************************************)
SweepCalls ==
    {[fn |-> "generate_available_slots", duration_minutes |-> 60,
      business_start |-> bs, business_end |-> be, days_ahead |-> da] :
        bs \in BusinessHours, be \in BusinessHours, da \in {1, 3}}

\* what the free/busy query answers to a sweep: an error, no busy period,
\* one busy period of each form, the busy periods of the example
SweepAnswers ==
    {[status |-> "error", busy |-> << >>], [status |-> "ok", busy |-> << >>],
     [status |-> "ok", busy |-> ExampleBusy]}
    \cup {[status |-> "ok", busy |-> <<b>>] : b \in BusyEntries}

InitSweep ==
    /\ calendar_client = NoClient
    /\ credentials \in {"none", "valid"}
    /\ now \in NowSet
    /\ candidate_times = << >>
    /\ pc = "idle"
    /\ freebusy = NotQueried
    /\ slot_source = NotCalled
    /\ matches = NoMatches
    /\ path = "none"
    /\ result = NoResult
    /\ call \in SweepCalls
    /\ ret = NoReturn
    /\ auth_count = 0
    /\ threads = NoThreads
    /\ log = << >>
    /\ loop = NoLoop

\* the locals of a sweep at the first test of the loop condition
EnterLoop(live, busy_periods) ==
    [active |-> TRUE, live |-> live, busy_periods |-> busy_periods,
     st |-> LoopState(first_hour(now), << >>, FALSE),
     end_time |-> first_hour(now) + call.days_ahead * DAY]

\* generate_available_slots up to the loop: without a service the synthetic
\* generator is entered (lines 103-104, 160-166); with one the busy periods
\* are asked for and parsed, which may raise (lines 106-120)
SweepEnter ==
    /\ pc = "idle"
    /\ \E client \in {GoogleCalendarClient(credentials)} :
         /\ calendar_client' = client
         /\ IF client.service = "None"
            THEN /\ freebusy' = NotQueried
                 /\ loop' = EnterLoop(FALSE, << >>)
                 /\ pc' = "sweep"
                 /\ UNCHANGED slot_source
            ELSE \E fb \in SweepAnswers :
                   \E busy_times \in {get_busy_times(client.service, fb)} :
                     /\ freebusy' = fb
                     /\ IF \E k \in 1..Len(busy_times) :
                              \/ parse_raises(busy_times[k].start)
                              \/ parse_raises(busy_times[k].end)
                        THEN /\ slot_source' = [raised |-> TRUE, slots |-> << >>,
                                                ended |-> TRUE]
                             /\ pc' = "done"
                             /\ UNCHANGED loop
                        ELSE /\ loop' = EnterLoop(TRUE,
                                  [k \in 1..Len(busy_times) |->
                                      [start |-> fromisoformat(busy_times[k].start),
                                       end |-> fromisoformat(busy_times[k].end)]])
                             /\ pc' = "sweep"
                             /\ UNCHANGED slot_source
    /\ auth_count' = auth_count + 1
    /\ UNCHANGED <<credentials, now, candidate_times, matches, path, result, call,
                   ret, threads, log>>

\* the loop condition held: one pass through the body
SweepPass ==
    /\ pc = "sweep"
    /\ loop_condition(loop.st, loop.end_time)
    /\ loop' = [loop EXCEPT !.st =
                   IF loop.live
                   THEN live_body(loop.st, loop.busy_periods, call.duration_minutes,
                                  call.business_start, call.business_end)
                   ELSE mock_body(loop.st, call.business_start, call.business_end)]
    /\ UNCHANGED <<calendar_client, credentials, now, candidate_times, pc, freebusy,
                   slot_source, matches, path, result, call, ret, auth_count,
                   threads, log>>

\* the loop is left, by its condition or by the exception of the body, and
\* the call returns or raises
SweepReturn ==
    /\ pc = "sweep"
    /\ ~loop_condition(loop.st, loop.end_time)
    /\ slot_source' = SlotOutcome(loop.st, loop.end_time)
    /\ loop' = NoLoop
    /\ pc' = "done"
    /\ ret' = [done |-> TRUE]
    /\ UNCHANGED <<calendar_client, credentials, now, candidate_times, freebusy,
                   matches, path, result, call, auth_count, threads, log>>

NextSweep == SweepEnter \/ SweepPass \/ SweepReturn

\* a call under way takes its next step
SpecSweep == InitSweep /\ [][NextSweep]_vars /\ WF_vars(NextSweep)

\* a pass of the loop that was completed (the body raised nothing)
PassCompleted == pc = "sweep" /\ pc' = "sweep" /\ ~loop'.st.raised

\* C29: the sweeps of the slot source terminate for every start instant, busy
\* list and pair of business hours in 0..23, business_start >= business_end
\* included: every completed pass moves current forward, and every call
\* comes to its end.
C29_SweepAdvancesAndEnds ==
    /\ [][PassCompleted => loop'.st.current > loop.st.current]_vars
    /\ <>(pc = "done")

\* a sweep with business_start >= business_end that ran through a window of
\* three days and returned
C29_Witness ==
    /\ SlotsReturned
    /\ call.business_start >= call.business_end
    /\ call.days_ahead = 3
    /\ calendar_client.service = "service"
    /\ slot_source.slots = << >>

\* a sweep from a Saturday night stopped by the cap
C29_WitnessCap ==
    /\ SlotsReturned
    /\ weekday(now) = 5
    /\ call.business_start < call.business_end
    /\ Len(slot_source.slots) = SlotCap

(***************************************************************************)
(* find_time_matches(candidate_times, interviewer_times) called with lists *)
(* of the caller's choice.                                                 *)
(***************************************************************************)
\* interviewer strings: on the hour, twenty minutes past it, twenty minutes
\* before the hour, and on the hour in offset form
InterviewerStrings ==
    {ZStr(At(1, 1, 14, 0, 0)), ZStr(At(1, 1, 14, 20, 0)),
     ZStr(At(1, 1, 16, 40, 0)), OffsetStr(At(1, 1, 14, 0, 0), 0)}

\* candidate strings: on the hour, ten minutes past it, an hour and a half
\* past it, and a string that is no ISO instant
MatchCandStrings ==
    {ZStr(At(1, 1, 14, 0, 0)), ZStr(At(1, 1, 14, 10, 0)),
     ZStr(At(1, 1, 15, 30, 0)), BadStr}

FindTimeMatchesCalls ==
    {[fn |-> "find_time_matches", interviewer_times |-> it, hash_seed |-> h] :
        it \in SeqsUpTo(InterviewerStrings, 2), h \in {"ascending", "descending"}}

InitFindTimeMatches ==
    /\ calendar_client = NoClient
    /\ credentials = "none"
    /\ now = At(1, 0, 8, 20, 0)
    /\ candidate_times \in SeqsUpTo(MatchCandStrings, MaxCand)
    /\ pc = "idle"
    /\ freebusy = NotQueried
    /\ slot_source = NotCalled
    /\ matches = NoMatches
    /\ path = "none"
    /\ result = NoResult
    /\ call \in FindTimeMatchesCalls
    /\ ret = NoReturn
    /\ auth_count = 0
    /\ threads = NoThreads
    /\ log = << >>
    /\ loop = NoLoop

\* one call of find_time_matches, from entry to return
FindTimeMatches ==
    /\ call.fn = "find_time_matches"
    /\ pc = "idle"
    /\ ret' = [done |-> TRUE,
               value |-> find_time_matches(candidate_times, call.interviewer_times,
                                           call.hash_seed)]
    /\ pc' = "done"
    /\ UNCHANGED <<calendar_client, credentials, now, candidate_times, freebusy,
                   slot_source, matches, path, result, call, auth_count, threads,
                   log, loop>>

NextFindTimeMatches == FindTimeMatches

SpecFindTimeMatches == InitFindTimeMatches /\ [][NextFindTimeMatches]_vars

FindTimeMatchesDone == call.fn = "find_time_matches" /\ pc = "done"

\* C25: find_time_matches returns only strings that are elements of the
\* interviewer_times list it was given, for every candidate list and every
\* interviewer list, interviewer times off the hour boundary included.
C25_MatchesAreInterviewerTimes ==
    FindTimeMatchesDone => Range(ret.value) \subseteq Range(call.interviewer_times)

\* What lines 58-60 return are normalized candidate strings: each string
\* returned is an interviewer string, or the hour boundary an interviewer
\* string is rounded to.
C25_MatchesAreInterviewerHours ==
    FindTimeMatchesDone
       => \A m \in Range(ret.value) :
              \/ m \in Range(call.interviewer_times)
              \/ \E i \in Range(call.interviewer_times) :
                     m = normalize_time_to_hour_boundary(i)

\* a call that returned an hour boundary no interviewer string names
C25_BoundaryReturned ==
    /\ FindTimeMatchesDone
    /\ call.interviewer_times = <<ZStr(At(1, 1, 14, 20, 0))>>
    /\ candidate_times = <<ZStr(At(1, 1, 14, 10, 0))>>
    /\ ret.value = <<ZStr(At(1, 1, 14, 0, 0))>>

\* C26: the proposed_meeting_times of check_calendar has at most 5 elements
\* and no duplicates, for every candidate list, one that matches six or more
\* of the eight mock interviewer slots included.
C26_AtMost5NoDuplicates ==
    CheckCalendarDone
       => /\ Len(result.proposed_meeting_times) <= 5
          /\ NoDuplicates(result.proposed_meeting_times)

\* What holds of every call: no string is proposed twice (line 66 returns
\* list(set(matches)), and the alternatives are distinct mock slots), and no
\* more strings are proposed than the mock calendar has slots.
C26_NoDuplicatesAtMost8 ==
    CheckCalendarDone
       => /\ Len(result.proposed_meeting_times) <= Len(MOCK_INTERVIEWER_AVAILABILITY)
          /\ NoDuplicates(result.proposed_meeting_times)

\* the candidate who named six mock slots is proposed all six
C26_SixProposed ==
    /\ CheckCalendarDone
    /\ candidate_times = SixMockSlots
    /\ Len(result.proposed_meeting_times) = 6

(***************************************************************************)
(* One process in which get_calendar_client, check_real_calendar and       *)
(* create_meeting_event are called one after the other, in any order,      *)
(* while the credentials the environment offers may change between calls.  *)
(***************************************************************************)
\* the number of calls followed
MaxCalls == 3

ProcessCands == {<< >>, <<ZStr(At(1, 1, 14, 0, 0))>>}

ProcessAnswers ==
    {[status |-> "error", busy |-> << >>], [status |-> "ok", busy |-> << >>],
     [status |-> "ok", busy |-> ExampleBusy]}

InitProcess ==
    /\ calendar_client = NoClient
    /\ credentials \in {"none", "invalid", "valid"}
    /\ now \in {At(1, 0, 8, 20, 0), At(1, 4, 15, 40, 10)}
    /\ candidate_times = << >>
    /\ pc = "idle"
    /\ freebusy = NotQueried
    /\ slot_source = NotCalled
    /\ matches = NoMatches
    /\ path = "none"
    /\ result = NoResult
    /\ call = NoCall
    /\ ret = NoReturn
    /\ auth_count = 0
    /\ threads = NoThreads
    /\ log = << >>
    /\ loop = NoLoop

\* what the log keeps of a call: the function, how often the call
\* authenticated, the service of the client it used, and what it worked
\* with: "synthetic" (the slots of the synthetic generator, a simulated
\* event), "live" (other slots, an insert request), or "none" (no slots asked
\* for, no event asked for)
LogEntry(fn, client_before, client_used, worked_with) ==
    [fn |-> fn, authentications |-> authentications(client_before),
     service |-> client_used.service, worked_with |-> worked_with]

\* the service account file or the token appears, disappears or goes bad
CredentialsChange ==
    /\ Len(log) < MaxCalls
    /\ \E c \in {"none", "invalid", "valid"} \ {credentials} : credentials' = c
    /\ UNCHANGED <<calendar_client, now, candidate_times, pc, freebusy, slot_source,
                   matches, path, result, call, ret, auth_count, threads, log, loop>>

CallGetCalendarClient ==
    /\ Len(log) < MaxCalls
    /\ \E client \in {get_calendar_client(calendar_client, credentials)} :
         /\ calendar_client' = client
         /\ log' = Append(log, LogEntry("get_calendar_client", calendar_client,
                                        client, "none"))
    /\ auth_count' = auth_count + authentications(calendar_client)
    /\ call' = [fn |-> "get_calendar_client"]
    /\ ret' = [done |-> TRUE]
    /\ UNCHANGED <<credentials, now, candidate_times, pc, freebusy, slot_source,
                   matches, path, result, threads, loop>>

CallCheckRealCalendar ==
    /\ Len(log) < MaxCalls
    /\ \E cands \in ProcessCands :
         \E fb \in (IF get_calendar_client(calendar_client, credentials).service = "None"
                    THEN {NotQueried} ELSE ProcessAnswers) :
           \E r \in {check_real_calendar(cands, calendar_client, credentials, now, fb)} :
             /\ candidate_times' = cands
             /\ calendar_client' = r.client
             /\ freebusy' = fb
             /\ slot_source' = r.slot_source
             /\ matches' = r.matches
             /\ path' = r.path
             /\ result' = r.result
             /\ log' = Append(log, LogEntry("check_real_calendar", calendar_client,
                                 r.client,
                                 IF r.slot_source
                                      = _generate_smart_mock_slots(now, 60, 9, 17, 14)
                                 THEN "synthetic" ELSE "live"))
    /\ auth_count' = auth_count + authentications(calendar_client)
    /\ call' = [fn |-> "check_real_calendar"]
    /\ ret' = [done |-> TRUE]
    /\ UNCHANGED <<credentials, now, pc, threads, loop>>

\* the arguments of create_meeting_event, and what the insert request does
\* if it is made
CreateMeetingEventCalls ==
    {[fn |-> "create_meeting_event", candidate_email |-> email,
      meeting_time |-> str, candidate_name |-> name, insert |-> ins] :
        email \in {"candidate@example.com", "None"},
        str \in {ZStr(At(1, 1, 14, 0, 0)), BadStr},
        name \in {"Kevin", "None"}, ins \in {"ok", "HttpError"}}

CallCreateMeetingEvent ==
    /\ Len(log) < MaxCalls
    /\ \E c \in CreateMeetingEventCalls :
         \E r \in {create_meeting_event(calendar_client, credentials, c.candidate_email,
                                        c.meeting_time, c.candidate_name, c.insert)} :
             /\ call' = c
             /\ calendar_client' = r.client
             /\ ret' = [done |-> TRUE, value |-> r.value]
             /\ log' = Append(log, LogEntry("create_meeting_event", calendar_client,
                                 r.client,
                                 IF ~r.value.success THEN "none"
                                 ELSE IF r.value.event_id = "mock_event"
                                 THEN "synthetic" ELSE "live"))
    /\ auth_count' = auth_count + authentications(calendar_client)
    /\ UNCHANGED <<credentials, now, candidate_times, pc, freebusy, slot_source,
                   matches, path, result, threads, loop>>

NextProcess ==
    \/ CredentialsChange
    \/ CallGetCalendarClient
    \/ CallCheckRealCalendar
    \/ CallCreateMeetingEvent

SpecProcess == InitProcess /\ [][NextProcess]_vars

\* C27: over any sequence of calls in one process authentication is
\* attempted exactly once, by the first call, and its outcome is permanent:
\* every call uses the service of the first; if that is None every later
\* check_real_calendar works on synthetic slots and every later event is
\* simulated, whatever credentials have appeared since.
C27_AuthenticatedOnceForGood ==
    /\ auth_count = (IF log = << >> THEN 0 ELSE 1)
    /\ \A i \in 1..Len(log) :
          /\ log[i].authentications = (IF i = 1 THEN 1 ELSE 0)
          /\ log[i].service = log[1].service
          /\ log[1].service = "None" => log[i].worked_with # "live"
    /\ log # << >> => calendar_client.service = log[1].service

\* authentication failed at the first call, valid credentials appeared, and
\* two more calls, a calendar check and an event, went on without a service
C27_Witness ==
    /\ Len(log) = 3
    /\ log[1].service = "None"
    /\ credentials = "valid"
    /\ log[2].fn = "check_real_calendar" /\ log[2].worked_with = "synthetic"
    /\ log[3].fn = "create_meeting_event" /\ log[3].worked_with = "synthetic"
    /\ ret.value.success

\* the last call was create_meeting_event and it has returned
CreateMeetingEventDone == call.fn = "create_meeting_event" /\ ret.done

\* the call got as far as the insert request, and the request failed
InsertFailed ==
    /\ calendar_client.service = "service"
    /\ ~(call.candidate_name = "None" /\ call.candidate_email = "None")
    /\ ~parse_raises(call.meeting_time)
    /\ call.insert = "HttpError"

\* C28: create_meeting_event reports success = true only when an event was
\* created or simulated, that is with a non-null event_id; when the insert
\* fails it returns success = false with an error.
C28_SuccessMeansEvent ==
    CreateMeetingEventDone
       => /\ ret.value.success => get(ret.value, "event_id") # "None"
          /\ InsertFailed => (~ret.value.success /\ get(ret.value, "error") # "None")

\* What the except clause of lines 408-414 does cover: an exception raised
\* before the insert (no name and no address, a start time that does not
\* parse) is reported with success = false and an error.
C28_ExceptionsReported ==
    CreateMeetingEventDone
       => ((\/ call.candidate_name = "None" /\ call.candidate_email = "None"
            \/ calendar_client.service = "service" /\ parse_raises(call.meeting_time))
              => (~ret.value.success /\ get(ret.value, "error") # "None"))

\* a failed insert reported as a success without an event
C28_FailedInsertReportedAsSuccess ==
    /\ CreateMeetingEventDone
    /\ InsertFailed
    /\ ret.value.success
    /\ get(ret.value, "event_id") = "None"

(***************************************************************************)
(* schedule_workflow (http_server.py, lines 136-184), step by step.  The   *)
(* handler is one coroutine without an await: its steps run one after the  *)
(* other.  parse_email and generate_reply are taken as calls that return   *)
(* or raise; check_real_calendar and create_meeting_event are the          *)
(* functions modelled above, which catch what is raised inside them.       *)
(***************************************************************************)
\* what parse_email may extract from the mail
ExtractedTimes == {<< >>, <<ZStr(At(1, 1, 14, 0, 0))>>, <<ZStr(At(1, 0, 10, 30, 0)), BadStr>>}

\* free/busy answers: an error, no busy period, busy over the whole horizon
WorkflowAnswers ==
    {[status |-> "error", busy |-> << >>], [status |-> "ok", busy |-> << >>],
     [status |-> "ok",
      busy |-> <<[start |-> NaiveStr(At(0, 0, 0, 0, 0)),
                  end |-> NaiveStr(At(9, 0, 0, 0, 0))]>>]}

WorkflowRequests ==
    {[fn |-> "schedule_workflow", from_email |-> email, create_event |-> flag,
      insert |-> ins] :
        email \in {"candidate@example.com", ""}, flag \in BOOLEAN,
        ins \in {"ok", "HttpError"}}

InitWorkflow ==
    /\ calendar_client = NoClient
    /\ credentials \in {"none", "valid"}
    /\ now \in {At(1, 0, 8, 20, 0), At(0, 5, 22, 30, 0)}
    /\ candidate_times = << >>
    /\ pc = "idle"
    /\ freebusy = NotQueried
    /\ slot_source = NotCalled
    /\ matches = NoMatches
    /\ path = "none"
    /\ result = NoResult
    /\ call \in WorkflowRequests
    /\ ret = NoReturn
    /\ auth_count = 0
    /\ threads = NoThreads
    /\ log = << >>
    /\ loop = NoLoop

\* except Exception: raise HTTPException(status_code=400) (lines 182-184)
HTTPException400 == [done |-> TRUE, status_code |-> 400, event |-> "None"]

\* the return of lines 173-180
Response200(event_result) == [done |-> TRUE, status_code |-> 200, event |-> event_result]

\* request.from_email.split('@')[0] if request.from_email else None (line 153)
candidate_name_of(from_email) ==
    IF from_email = "" THEN "None" ELSE local_part(from_email)

\* an event is created for every non-empty proposal, asked for or not
event_wanted_unasked(requested, proposed_meeting_times) ==
    proposed_meeting_times # << >>

\* if request.create_event and calendar_result.proposed_meeting_times (line 164)
event_wanted(requested, proposed_meeting_times) ==
    requested /\ proposed_meeting_times # << >>

\* Step 1 (lines 141-146)
WorkflowParseEmail ==
    /\ call.fn = "schedule_workflow" /\ pc = "idle"
    /\ \/ /\ \E extracted_times \in ExtractedTimes : candidate_times' = extracted_times
          /\ log' = Append(log, [step |-> "parse_email", outcome |-> "returned"])
          /\ pc' = "parsed"
          /\ UNCHANGED ret
       \/ /\ log' = Append(log, [step |-> "parse_email", outcome |-> "raised"])
          /\ pc' = "done"
          /\ ret' = HTTPException400
          /\ UNCHANGED candidate_times
    /\ UNCHANGED <<calendar_client, credentials, now, freebusy, slot_source, matches,
                   path, result, call, auth_count, threads, loop>>

\* Step 2 (lines 148-150): check_real_calendar(parsed.extracted_times)
WorkflowCheckCalendar ==
    /\ call.fn = "schedule_workflow" /\ pc = "parsed"
    /\ \E fb \in (IF get_calendar_client(calendar_client, credentials).service = "None"
                  THEN {NotQueried} ELSE WorkflowAnswers) :
         \E r \in {check_real_calendar(candidate_times, calendar_client,
                                       credentials, now, fb)} :
             /\ calendar_client' = r.client
             /\ freebusy' = fb
             /\ slot_source' = r.slot_source
             /\ matches' = r.matches
             /\ path' = r.path
             /\ result' = r.result
    /\ auth_count' = auth_count + authentications(calendar_client)
    /\ log' = Append(log, [step |-> "check_real_calendar", outcome |-> "returned"])
    /\ pc' = "checked"
    /\ UNCHANGED <<credentials, now, candidate_times, call, ret, threads, loop>>

\* Step 3 (lines 152-161)
WorkflowGenerateReply ==
    /\ call.fn = "schedule_workflow" /\ pc = "checked"
    /\ \/ /\ log' = Append(log, [step |-> "generate_reply", outcome |-> "returned",
                                 proposed_times |-> result.proposed_meeting_times])
          /\ pc' = "replied"
          /\ UNCHANGED ret
       \/ /\ log' = Append(log, [step |-> "generate_reply", outcome |-> "raised",
                                 proposed_times |-> result.proposed_meeting_times])
          /\ pc' = "done"
          /\ ret' = HTTPException400
    /\ UNCHANGED <<calendar_client, credentials, now, candidate_times, freebusy,
                   slot_source, matches, path, result, call, auth_count, threads, loop>>

\* Step 4 and the return (lines 163-180)
WorkflowCreateEvent ==
    /\ call.fn = "schedule_workflow" /\ pc = "replied"
    /\ IF event_wanted(call.create_event, result.proposed_meeting_times)
       THEN \E r \in {create_meeting_event(calendar_client, credentials,
                         call.from_email, result.proposed_meeting_times[1],
                         candidate_name_of(call.from_email), call.insert)} :
                /\ calendar_client' = r.client
                /\ log' = Append(log, [step |-> "create_meeting_event",
                                       outcome |-> "returned",
                                       meeting_time |-> result.proposed_meeting_times[1]])
                /\ ret' = Response200(r.value)
       ELSE /\ ret' = Response200([success |-> FALSE, event_id |-> "None"])
            /\ UNCHANGED <<calendar_client, log>>
    /\ pc' = "done"
    /\ UNCHANGED <<credentials, now, candidate_times, freebusy, slot_source, matches,
                   path, result, call, auth_count, threads, loop>>

NextWorkflow ==
    \/ WorkflowParseEmail
    \/ WorkflowCheckCalendar
    \/ WorkflowGenerateReply
    \/ WorkflowCreateEvent

SpecWorkflow == InitWorkflow /\ [][NextWorkflow]_vars

\* the order of the steps
WorkflowSteps ==
    <<"parse_email", "check_real_calendar", "generate_reply", "create_meeting_event">>

\* C24: the steps of schedule_workflow run in the order parse_email,
\* check_real_calendar, generate_reply, event creation; create_meeting_event
\* is called only when create_event is true and the proposal is not empty,
\* with the first proposed time, after the reply was generated; once a step
\* has raised no later step runs and the response is HTTP 400.
C24_StepsInOrder ==
    call.fn = "schedule_workflow"
       => /\ Len(log) <= 4
          /\ \A i \in 1..Len(log) : log[i].step = WorkflowSteps[i]
          /\ \A i \in 1..(Len(log) - 1) : log[i].outcome = "returned"
          /\ Len(log) = 4
                => /\ call.create_event
                   /\ result.proposed_meeting_times # << >>
                   /\ log[4].meeting_time = result.proposed_meeting_times[1]
                   /\ log[3].proposed_times = result.proposed_meeting_times
          /\ (log # << >> /\ log[Len(log)].outcome = "raised")
                => (pc = "done" /\ ret.status_code = 400)
          /\ (pc = "done" /\ ret.status_code = 200)
                => /\ Len(log) >= 3
                   /\ Len(log) = 4 <=> (/\ call.create_event
                                        /\ result.proposed_meeting_times # << >>)

\* a workflow that went through its four steps
C24_Witness ==
    /\ call.fn = "schedule_workflow" /\ pc = "done"
    /\ Len(log) = 4
    /\ ret.status_code = 200
    /\ ret.event.success

\* a workflow whose reply step raised: no event although one was asked for
\* and a time was proposed
C24_WitnessRaised ==
    /\ call.fn = "schedule_workflow" /\ pc = "done"
    /\ Len(log) = 3 /\ log[3].outcome = "raised"
    /\ call.create_event /\ result.proposed_meeting_times # << >>
    /\ ret.status_code = 400

\* a workflow asked for an event that had nothing to propose
C24_WitnessNoProposal ==
    /\ call.fn = "schedule_workflow" /\ pc = "done"
    /\ call.create_event /\ result.proposed_meeting_times = << >>
    /\ ret.status_code = 200 /\ Len(log) = 3

(***************************************************************************)
(* Concurrent callers of get_calendar_client (lines 246-251).  Each of     *)
(* check_real_calendar and create_meeting_event begins by calling it.  The *)
(* function holds no lock: a caller tests the global, constructs the       *)
(* client (authentication reads files and may use the network), stores it  *)
(* and returns the global, and another thread may run between any two of   *)
(* these steps.                                                            *)
(***************************************************************************)
\* the number of concurrent callers
MaxThreads == 2

Callers == 1..MaxThreads

\* a caller that has not yet entered get_calendar_client
Entering(fn) == [fn |-> fn, pc |-> "test", constructed |-> NoClient, client |-> NoClient]

InitThreads ==
    /\ calendar_client = NoClient
    /\ credentials \in {"none", "invalid", "valid"}
    /\ now = At(1, 0, 8, 20, 0)
    /\ candidate_times = << >>
    /\ pc = "idle"
    /\ freebusy = NotQueried
    /\ slot_source = NotCalled
    /\ matches = NoMatches
    /\ path = "none"
    /\ result = NoResult
    /\ call = NoCall
    /\ ret = NoReturn
    /\ auth_count = 0
    /\ threads \in [Callers -> {Entering(fn) :
                                   fn \in {"check_real_calendar", "create_meeting_event"}}]
    /\ log = << >>
    /\ loop = NoLoop

\* the k-th object the constructor has made
Instance(client, k) == [exists |-> client.exists, service |-> client.service, id |-> k]

\* if _calendar_client is None (line 249)
TestGlobal(t) ==
    /\ threads[t].pc = "test"
    /\ threads' = [threads EXCEPT ![t].pc =
                      IF ~calendar_client.exists THEN "construct" ELSE "return"]
    /\ UNCHANGED <<calendar_client, credentials, now, candidate_times, pc, freebusy,
                   slot_source, matches, path, result, call, ret, auth_count, log, loop>>

\* GoogleCalendarClient() (line 250, right-hand side): authentication runs
Construct(t) ==
    /\ threads[t].pc = "construct"
    /\ auth_count' = auth_count + 1
    /\ threads' = [threads EXCEPT
                      ![t].constructed = Instance(GoogleCalendarClient(credentials),
                                                  auth_count + 1),
                      ![t].pc = "assign"]
    /\ UNCHANGED <<calendar_client, credentials, now, candidate_times, pc, freebusy,
                   slot_source, matches, path, result, call, ret, log, loop>>

\* _calendar_client = ... (line 250, the store)
AssignGlobal(t) ==
    /\ threads[t].pc = "assign"
    /\ calendar_client' = threads[t].constructed
    /\ threads' = [threads EXCEPT ![t].pc = "return"]
    /\ UNCHANGED <<credentials, now, candidate_times, pc, freebusy, slot_source,
                   matches, path, result, call, ret, auth_count, log, loop>>

\* return _calendar_client (line 251): the caller goes on with this client
ReturnGlobal(t) ==
    /\ threads[t].pc = "return"
    /\ threads' = [threads EXCEPT ![t].client = calendar_client, ![t].pc = "done"]
    /\ UNCHANGED <<calendar_client, credentials, now, candidate_times, pc, freebusy,
                   slot_source, matches, path, result, call, ret, auth_count, log, loop>>

NextThreads ==
    \E t \in Callers :
        \/ TestGlobal(t)
        \/ Construct(t)
        \/ AssignGlobal(t)
        \/ ReturnGlobal(t)

SpecThreads == InitThreads /\ [][NextThreads]_vars

\* the callers that have their client
Served == {t \in Callers : threads[t].pc = "done"}

\* C23: whatever the interleaving of concurrent callers that start with the
\* global client unset, at most one GoogleCalendarClient is constructed
\* (authentication runs once), all callers use that one instance, and each
\* works with the service it would have got alone.
C23_OneClientForAllCallers ==
    threads # NoThreads
       => /\ auth_count <= 1
          /\ \A t, u \in Served : threads[t].client = threads[u].client
          /\ \A t \in Served : threads[t].client.service = _authenticate(credentials)

\* What holds without a lock: every caller gets a client that exists, with
\* the service authentication yields, and no caller authenticates twice.
C23_EveryCallerServed ==
    threads # NoThreads
       => /\ auth_count <= MaxThreads
          /\ \A t \in Served :
                /\ threads[t].client.exists
                /\ threads[t].client.service = _authenticate(credentials)

\* two callers passed the test before either stored its client: two clients
\* were constructed and the callers ended with different instances
C23_TwoClients ==
    /\ threads # NoThreads
    /\ auth_count = 2
    /\ Served = Callers
    /\ threads[1].client # threads[2].client

====
